---- MODULE Spec2Model ----
(***************************************************************************)
(* Provider reconciliation core of cio (cio/src/providers.rs): the        *)
(* ProviderOps trait and its four implementations (ramp_api, octorust,    *)
(* gsuite_api, okta clients).  Every trait method is a sequential program *)
(* over one remote account; it is modelled as an operator that threads a  *)
(* context (remote state, outbound call log, injected fault) through the  *)
(* remote calls in source order, and one action per trait method applies  *)
(* that operator to the current remote state.                             *)
(***************************************************************************)
EXTENDS Naturals, Integers, Sequences, FiniteSets, TLC

VARIABLES provider, user, remote, last, prev

vars == <<provider, user, remote, last, prev>>

----------------------------------------------------------------------------
(* Bounds *)

\* Largest index of an outbound call at which a failure may be injected.
MaxFaultPos == 12

\* Largest number of deferred invites the spend-management account records.
MaxInvites == 3

\* Largest number of groups the SSO-directory tenant has ever created.
MaxCreated == 3

----------------------------------------------------------------------------
(* Canonical directory (configs::User, configs::Group, companies::Company) *)

GroupNames == {"eng", "ops"}

\* user.groups is a Vec<String>; the orders listed are the ones iterated.
GroupLists == {<<>>, <<"eng">>, <<"eng", "ops">>}

Email == "alice@corp.com"

Handle == "alice"

github_org == "corp"

gsuite_domain == "corp.com"

Range(s) == {s[i] : i \in DOMAIN s}

\* Vec::contains
ContainsElem(s, x) == \E i \in DOMAIN s : s[i] = x

----------------------------------------------------------------------------
(* Errors: the adapters see an error only through e.to_string() *)

Err(status, text) == [status |-> status, text |-> text]

NoError == Err(0, <<>>)

\* The decimal digits of a status code (Display of a u16).
RECURSIVE Digits(_)
Digits(n) ==
    LET DigitChar(d) == <<"0", "1", "2", "3", "4", "5", "6", "7", "8", "9">>[d + 1]
    IN IF n < 10 THEN <<DigitChar(n)>>
       ELSE Digits(n \div 10) \o <<DigitChar(n % 10)>>

\* e.to_string(): the status code followed by the response text.
to_string(e) == Digits(e.status) \o <<" ">> \o e.text

\* str::contains
Contains(s, pat) ==
    \E i \in 1..(Len(s) + 1 - Len(pat)) : SubSeq(s, i, i + Len(pat) - 1) = pat

\* A not-found test that looks for another status code.
IsNotFoundMutant(e) == Contains(to_string(e), <<"4", "0", "3">>)

\* e.to_string().contains("404"), the not-found test of every lookup.
IsNotFound(e) == Contains(to_string(e), <<"4", "0", "4">>)

NotFoundErr == Err(404, <<"N", "o", "t", " ", "F", "o", "u", "n", "d">>)

ConflictErr == Err(409, <<"e", "x", "i", "s", "t", "s">>)

ValidationErr == Err(422, <<"i", "n", "v", "a", "l", "i", "d">>)

\* Failures of the transport or the provider that are injected at a call:
\* a server error, and a server error whose text carries the digits 404
\* (a request id, a rate-limit notice naming an account or address).
ServerErr == Err(500, <<"d", "o", "w", "n">>)

ServerErr404 == Err(503, <<"i", "d", " ", "1", "4", "0", "4">>)

FaultErrs == {ServerErr, ServerErr404}

NoFault == [at |-> 0, err |-> NoError]

\* anyhow errors returned by the adapters: bail!(context, e) or `?`.
Bail(context, e) == [context |-> context, cause |-> e]

Propagate(e) == [context |-> <<>>, cause |-> e]

NoErr == Propagate(NoError)

----------------------------------------------------------------------------
(* Outbound calls *)

NoBody == [kind |-> "none"]

Req(api, target, who, body) ==
    [api |-> api, target |-> target, who |-> who, body |-> body]

Reply(st, val) == [status |-> 200, err |-> NoError, st |-> st, val |-> val]

Refuse(st, e) == [status |-> e.status, err |-> e, st |-> st, val |-> NoBody]

\* One request-response cycle: the call is logged, the injected fault (if
\* it is this call's turn) replaces the provider's response and leaves the
\* remote state as it was.
Do(ctx, req, nat) ==
    LET n == Len(ctx.calls) + 1
        faulted == ctx.fault.at = n
        e == IF faulted THEN ctx.fault.err ELSE nat.err
        good == ~faulted /\ nat.status = 200
    IN [ctx |-> [st |-> IF good THEN nat.st ELSE ctx.st,
                 calls |-> Append(ctx.calls,
                                  [api |-> req.api, target |-> req.target,
                                   who |-> req.who, body |-> req.body,
                                   resp |-> IF good THEN 200 ELSE e.status,
                                   val |-> IF good THEN nat.val ELSE NoBody]),
                 fault |-> ctx.fault],
        ok |-> good,
        err |-> e,
        val |-> IF good THEN nat.val ELSE NoBody]

Ctx(st, fault) == [st |-> st, calls |-> <<>>, fault |-> fault]

\* Result of a trait method: Result<String>, Result<bool> or Result<()>.
Ret(ctx, id, flag) ==
    [ctx |-> ctx, ok |-> TRUE, id |-> id, flag |-> flag, list |-> <<>>,
     err |-> NoErr]

RetList(ctx, list) == [Ret(ctx, "", FALSE) EXCEPT !.list = list]

Fail(ctx, err) ==
    [ctx |-> ctx, ok |-> FALSE, id |-> "", flag |-> FALSE, list |-> <<>>,
     err |-> err]

\* call(..).await?; Ok(()): the call's failure is returned as it is.
Unit(r) ==
    IF r.ok THEN Ret(r.ctx, "", FALSE) ELSE Fail(r.ctx, Propagate(r.err))

\* call(..).await of a listing endpoint: the listing is the result.
Listing(r) ==
    IF r.ok THEN RetList(r.ctx, r.val.list) ELSE Fail(r.ctx, Propagate(r.err))

----------------------------------------------------------------------------
(* Org-membership provider: the remote organization as octorust sees it.   *)
(* gh.org is the organization role of the account Handle ("none" when it   *)
(* is no member); gh.teams maps a team slug to the team and to the role    *)
(* the account holds in it.                                                *)

\* The team fields the adapter reads back: name, description and parent.
NoTeam == [exists |-> FALSE, name |-> "", description |-> "", parent |-> 0,
           role |-> "none"]

\* role.to_string() of OrgsSetMembershipUserRequestRole
OrgRole(u) == IF u.is_group_admin THEN "admin" ELSE "member"

\* A team role that ignores the admin flag.
TeamRoleMutant(u) == "member"

\* TeamMembershipRole chosen by the admin flag
TeamRole(u) == IF u.is_group_admin THEN "maintainer" ELSE "member"

\* orgs().get_membership_for_user
GhGetOrgMembership(ctx, handle) ==
    Do(ctx, Req("orgs.get_membership_for_user", github_org, handle, NoBody),
       IF ctx.st.org = "none" THEN Refuse(ctx.st, NotFoundErr)
       ELSE Reply(ctx.st, [role |-> ctx.st.org]))

\* orgs().set_membership_for_user
GhSetOrgMembership(ctx, handle, role) ==
    Do(ctx, Req("orgs.set_membership_for_user", github_org, handle,
                [role |-> role]),
       Reply([ctx.st EXCEPT !.org = role], NoBody))

\* orgs().remove_member: leaves the organization and every team
GhRemoveMember(ctx, handle) ==
    Do(ctx, Req("orgs.remove_member", github_org, handle, NoBody),
       IF ctx.st.org = "none" THEN Refuse(ctx.st, NotFoundErr)
       ELSE Reply([org |-> "none",
                   teams |-> [s \in GroupNames |->
                                [ctx.st.teams[s] EXCEPT !.role = "none"]]],
                  NoBody))

\* orgs().list_all_members
GhListMembers(ctx) ==
    Do(ctx, Req("orgs.list_all_members", github_org, "", NoBody),
       Reply(ctx.st, [list |-> IF ctx.st.org = "none" THEN <<>>
                               ELSE <<Handle>>]))

\* The slug under which the organization keeps the team a name given in a
\* request path or a create body stands for: the name in lower case.
Slug(name) == IF name = "Eng" THEN "eng" ELSE name

TeamExists(st, slug) == slug \in GroupNames /\ st.teams[slug].exists

\* teams().get_by_name
GhGetTeam(ctx, team_slug) ==
    LET slug == Slug(team_slug)
    IN Do(ctx, Req("teams.get_by_name", team_slug, "", NoBody),
          IF TeamExists(ctx.st, slug)
          THEN Reply(ctx.st, [parent |-> ctx.st.teams[slug].parent])
          ELSE Refuse(ctx.st, NotFoundErr))

\* teams().update_in_org
GhUpdateTeam(ctx, team_slug, body) ==
    LET slug == Slug(team_slug)
    IN Do(ctx, Req("teams.update_in_org", team_slug, "", body),
          IF TeamExists(ctx.st, slug)
          THEN Reply([ctx.st EXCEPT !.teams[slug].name = body.name,
                                    !.teams[slug].description = body.description,
                                    !.teams[slug].parent = body.parent_team_id],
                     NoBody)
          ELSE Refuse(ctx.st, NotFoundErr))

\* A create call that drops the repository names of the request.
GhCreateTeamMutant(ctx, body) ==
    Do(ctx, Req("teams.create", body.name, "",
                [body EXCEPT !.repo_names = <<>>]),
       IF Slug(body.name) \notin GroupNames
          \/ TeamExists(ctx.st, Slug(body.name))
       THEN Refuse(ctx.st, ValidationErr)
       ELSE Reply([ctx.st EXCEPT !.teams[Slug(body.name)] =
                       [exists |-> TRUE, name |-> body.name,
                        description |-> body.description,
                        parent |-> body.parent_team_id, role |-> "none"]],
                  NoBody))

\* teams().create
GhCreateTeam(ctx, body) ==
    Do(ctx, Req("teams.create", body.name, "", body),
       IF Slug(body.name) \notin GroupNames
          \/ TeamExists(ctx.st, Slug(body.name))
       THEN Refuse(ctx.st, ValidationErr)
       ELSE Reply([ctx.st EXCEPT !.teams[Slug(body.name)] =
                       [exists |-> TRUE, name |-> body.name,
                        description |-> body.description,
                        parent |-> body.parent_team_id, role |-> "none"]],
                  NoBody))

\* teams().delete_in_org
GhDeleteTeam(ctx, team_slug) ==
    LET slug == Slug(team_slug)
    IN Do(ctx, Req("teams.delete_in_org", team_slug, "", NoBody),
          IF TeamExists(ctx.st, slug)
          THEN Reply([ctx.st EXCEPT !.teams[slug] = NoTeam], NoBody)
          ELSE Refuse(ctx.st, NotFoundErr))

\* teams().get_membership_for_user_in_org
GhGetTeamMembership(ctx, team_slug, handle) ==
    LET slug == Slug(team_slug)
    IN Do(ctx, Req("teams.get_membership_for_user_in_org", team_slug, handle,
                   NoBody),
          IF TeamExists(ctx.st, slug) /\ ctx.st.teams[slug].role # "none"
          THEN Reply(ctx.st, [role |-> ctx.st.teams[slug].role])
          ELSE Refuse(ctx.st, NotFoundErr))

\* teams().add_or_update_membership_for_user_in_org: an account outside
\* the organization is invited to it as a member
GhAddOrUpdateTeamMembership(ctx, team_slug, handle, role) ==
    LET slug == Slug(team_slug)
    IN Do(ctx, Req("teams.add_or_update_membership_for_user_in_org", team_slug,
                   handle, [role |-> role]),
          IF TeamExists(ctx.st, slug)
          THEN Reply([ctx.st EXCEPT
                         !.teams[slug].role = role,
                         !.org = IF @ = "none" THEN "member" ELSE @],
                     NoBody)
          ELSE Refuse(ctx.st, NotFoundErr))

\* teams().remove_membership_for_user_in_org
GhRemoveTeamMembership(ctx, team_slug, handle) ==
    LET slug == Slug(team_slug)
    IN Do(ctx, Req("teams.remove_membership_for_user_in_org", team_slug, handle,
                   NoBody),
          IF TeamExists(ctx.st, slug)
          THEN Reply([ctx.st EXCEPT !.teams[slug].role = "none"], NoBody)
          ELSE Refuse(ctx.st, NotFoundErr))

\* The order in which the organization lists its teams.
SlugOrder == <<"eng", "ops">>

\* The slugs of the existing teams, in listing order.
SlugList(st) == SelectSeq(SlugOrder, LAMBDA s : st.teams[s].exists)

\* teams().list_all
GhListTeams(ctx) ==
    Do(ctx, Req("teams.list_all", github_org, "", NoBody),
       Reply(ctx.st, [list |-> SlugList(ctx.st)]))

----------------------------------------------------------------------------
(* impl ProviderOps for octorust::Client *)

GhCheckUserIsMemberOfGroup(ctx, u, group) ==
    LET role == TeamRole(u)
        looked(r) ==
            IF r.ok THEN Ret(r.ctx, "", r.val.role = role)
            ELSE IF ~IsNotFound(r.err)
                 THEN Fail(r.ctx,
                           Bail(<<"checking if user is a member of the github team",
                                  u.github, group>>, r.err))
                 ELSE Ret(r.ctx, "", FALSE)
    IN IF u.github = "" THEN Ret(ctx, "", FALSE)
       ELSE looked(GhGetTeamMembership(ctx, group, u.github))

GhAddUserToGroup(ctx, u, group) ==
    IF u.github = "" THEN Ret(ctx, "", FALSE)
    ELSE Unit(GhAddOrUpdateTeamMembership(ctx, group, u.github, TeamRole(u)))

\* A remove_from_group that removes the account from the organization.
GhRemoveUserFromGroupMutant(ctx, u, group) ==
    IF u.github = "" THEN Ret(ctx, "", FALSE)
    ELSE Unit(GhRemoveMember(ctx, u.github))

GhRemoveUserFromGroup(ctx, u, group) ==
    IF u.github = "" THEN Ret(ctx, "", FALSE)
    ELSE Unit(GhRemoveTeamMembership(ctx, group, u.github))

GhListProviderUsers(ctx) == Listing(GhListMembers(ctx))

\* A list_provider_groups that answers from the listing the previous call
\* returned, kept in the adapter between calls.
GhListProviderGroupsMutant(ctx) ==
    IF last.op = "list_provider_groups" /\ last.ok
    THEN RetList(ctx, last.list)
    ELSE Listing(GhListTeams(ctx))

GhListProviderGroups(ctx) == Listing(GhListTeams(ctx))

\* for group in &user.groups { check; if !is_member { add } }
RECURSIVE GhAddPhase(_, _, _)
GhAddPhase(ctx, u, i) ==
    LET added(a) == IF ~a.ok THEN a ELSE GhAddPhase(a.ctx, u, i + 1)
        checked(is_member) ==
            IF ~is_member.ok THEN is_member
            ELSE IF ~is_member.flag
                 THEN added(GhAddUserToGroup(is_member.ctx, u, u.groups[i]))
                 ELSE GhAddPhase(is_member.ctx, u, i + 1)
    IN IF i > Len(u.groups) THEN Ret(ctx, "", FALSE)
       ELSE checked(GhCheckUserIsMemberOfGroup(ctx, u, u.groups[i]))

\* for team in &gh_teams { if contains { continue }; check; if is_member { remove } }
RECURSIVE GhRemovePhase(_, _, _, _)
GhRemovePhase(ctx, u, gh_teams, i) ==
    LET removed(d) ==
            IF ~d.ok THEN d ELSE GhRemovePhase(d.ctx, u, gh_teams, i + 1)
        checked(is_member) ==
            IF ~is_member.ok THEN is_member
            ELSE IF is_member.flag
                 THEN removed(GhRemoveUserFromGroup(is_member.ctx, u,
                                                    gh_teams[i]))
                 ELSE GhRemovePhase(is_member.ctx, u, gh_teams, i + 1)
    IN IF i > Len(gh_teams) THEN Ret(ctx, "", FALSE)
       ELSE IF ContainsElem(u.groups, gh_teams[i])
            THEN GhRemovePhase(ctx, u, gh_teams, i + 1)
            ELSE checked(GhCheckUserIsMemberOfGroup(ctx, u, gh_teams[i]))

\* Team phases that list the remote teams before the add loop.
GhEnsureTeamsMutant(ctx, u) ==
    LET removed(d) == IF ~d.ok THEN d ELSE Ret(d.ctx, "", FALSE)
        added(a, gh_teams) ==
            IF ~a.ok THEN a ELSE removed(GhRemovePhase(a.ctx, u, gh_teams, 1))
        listed(gh_teams) ==
            IF ~gh_teams.ok THEN gh_teams
            ELSE added(GhAddPhase(gh_teams.ctx, u, 1), gh_teams.list)
    IN listed(GhListProviderGroups(ctx))

\* The team phases of ensure_user, after the organization membership.
GhEnsureTeams(ctx, u) ==
    LET removed(d) == IF ~d.ok THEN d ELSE Ret(d.ctx, "", FALSE)
        listed(gh_teams) ==
            IF ~gh_teams.ok THEN gh_teams
            ELSE removed(GhRemovePhase(gh_teams.ctx, u, gh_teams.list, 1))
        added(a) == IF ~a.ok THEN a ELSE listed(GhListProviderGroups(a.ctx))
    IN added(GhAddPhase(ctx, u, 1))

GhEnsureUser(ctx, u) ==
    LET role == OrgRole(u)
        set(s) == IF ~s.ok THEN Fail(s.ctx, Propagate(s.err))
                  ELSE GhEnsureTeams(s.ctx, u)
        looked(m) ==
            LET user_exists == m.ok /\ m.val.role = role
            IN IF ~m.ok /\ ~IsNotFound(m.err)
               THEN Fail(m.ctx,
                         Bail(<<"checking if user is a member of the github org",
                                u.github, github_org>>, m.err))
               ELSE IF ~user_exists
                    THEN set(GhSetOrgMembership(m.ctx, u.github, role))
                    ELSE GhEnsureTeams(m.ctx, u)
    IN IF u.github = "" THEN Ret(ctx, "", FALSE)
       ELSE looked(GhGetOrgMembership(ctx, u.github))

\* An ensure_group whose update carries no parent.
GhEnsureGroupMutant(ctx, g) ==
    LET looked(t) ==
            IF t.ok
            THEN Unit(GhUpdateTeam(t.ctx, g.name,
                          [name |-> g.name, description |-> g.description,
                           parent_team_id |-> 0, privacy |-> "closed"]))
            ELSE IF ~IsNotFound(t.err)
                 THEN Fail(t.ctx,
                           Bail(<<"checking if team exists in github org",
                                  g.name, github_org>>, t.err))
                 ELSE Unit(GhCreateTeam(t.ctx,
                               [name |-> g.name, description |-> g.description,
                                maintainers |-> <<>>, privacy |-> "closed",
                                parent_team_id |-> 0, repo_names |-> g.repos]))
    IN looked(GhGetTeam(ctx, g.name))

GhEnsureGroup(ctx, g) ==
    LET looked(t) ==
            IF t.ok
            THEN Unit(GhUpdateTeam(t.ctx, g.name,
                          [name |-> g.name, description |-> g.description,
                           parent_team_id |-> t.val.parent,
                           privacy |-> "closed"]))
            ELSE IF ~IsNotFound(t.err)
                 THEN Fail(t.ctx,
                           Bail(<<"checking if team exists in github org",
                                  g.name, github_org>>, t.err))
                 ELSE Unit(GhCreateTeam(t.ctx,
                               [name |-> g.name, description |-> g.description,
                                maintainers |-> <<>>, privacy |-> "closed",
                                parent_team_id |-> 0, repo_names |-> g.repos]))
    IN looked(GhGetTeam(ctx, g.name))

\* A delete_user without the handle guard.
GhDeleteUserMutant(ctx, u) == Unit(GhRemoveMember(ctx, u.github))

GhDeleteUser(ctx, u) ==
    IF u.github = "" THEN Ret(ctx, "", FALSE)
    ELSE Unit(GhRemoveMember(ctx, u.github))

\* A delete_group that also takes the account out of the organization.
GhDeleteGroupMutant(ctx, g) ==
    LET removed(r) == IF ~r.ok THEN Fail(r.ctx, Propagate(r.err))
                      ELSE Unit(GhDeleteTeam(r.ctx, g.name))
    IN removed(GhRemoveMember(ctx, Handle))

GhDeleteGroup(ctx, g) == Unit(GhDeleteTeam(ctx, g.name))


----------------------------------------------------------------------------
(* Groupware provider: the remote domain as gsuite_api sees it.  gs.user   *)
(* is the account whose primary email is Email, gs.groups maps a group     *)
(* address to the group and to the role the account holds in it.          *)

\* format!("{}@{}", name, company.gsuite_domain)
Addr(name) == name \o "@" \o gsuite_domain

GroupAddrs == {Addr(n) : n \in GroupNames}

\* The order in which the domain lists its groups (ordered by email).
AddrOrder == <<Addr("eng"), Addr("ops")>>

NoGUser == [exists |-> FALSE, id |-> "", primary_email |-> "", name |-> "",
            suspended |-> FALSE, suspension_reason |-> "", aliases |-> {},
            password |-> "", change_password_at_next_login |-> FALSE]

\* What the domain keeps of a user record: the password is write-only.
Stored(body) == [body EXCEPT !.password = "",
                             !.change_password_at_next_login = FALSE]

NoGGroup == [exists |-> FALSE, name |-> "", email |-> "", description |-> "",
             aliases |-> {}, role |-> "none"]

\* "OWNER" / "MEMBER" chosen by the admin flag
GsRole(u) == IF u.is_group_admin THEN "OWNER" ELSE "MEMBER"

\* gsuite_api::types::Member sent by add_user_to_group
GsMember(u) == [role |-> GsRole(u), email |-> u.email,
                delivery_settings |-> "ALL_MAIL"]

GUserExists(st, key) ==
    st.user.exists /\ key \in {st.user.id, st.user.primary_email}

\* users().get
GsGetUser(ctx, key) ==
    Do(ctx, Req("users.get", key, "", NoBody),
       IF GUserExists(ctx.st, key) THEN Reply(ctx.st, ctx.st.user)
       ELSE Refuse(ctx.st, NotFoundErr))

\* users().update: aliases are not writable through the user resource
GsUpdateUser(ctx, key, body) ==
    Do(ctx, Req("users.update", key, "", body),
       IF GUserExists(ctx.st, key)
       THEN Reply([ctx.st EXCEPT !.user =
                       [Stored(body) EXCEPT !.exists = TRUE,
                                            !.id = ctx.st.user.id,
                                            !.aliases = ctx.st.user.aliases]],
                  NoBody)
       ELSE Refuse(ctx.st, NotFoundErr))

\* users().insert
GsInsertUser(ctx, body) ==
    Do(ctx, Req("users.insert", body.primary_email, "", body),
       IF ctx.st.user.exists THEN Refuse(ctx.st, ConflictErr)
       ELSE LET new == [Stored(body) EXCEPT !.exists = TRUE, !.id = "u1",
                                            !.aliases = {}]
            IN Reply([ctx.st EXCEPT !.user = new], new))

\* users().list_all
GsListUsers(ctx) ==
    Do(ctx, Req("users.list_all", gsuite_domain, "", NoBody),
       Reply(ctx.st, [list |-> IF ctx.st.user.exists
                               THEN <<ctx.st.user.primary_email>>
                               ELSE <<>>]))

GGroupExists(st, addr) == addr \in GroupAddrs /\ st.groups[addr].exists

\* groups().get
GsGetGroup(ctx, addr) ==
    Do(ctx, Req("groups.get", addr, "", NoBody),
       IF GGroupExists(ctx.st, addr) THEN Reply(ctx.st, ctx.st.groups[addr])
       ELSE Refuse(ctx.st, NotFoundErr))

\* groups().update: aliases, settings and members are not writable here
GsUpdateGroup(ctx, addr, body) ==
    Do(ctx, Req("groups.update", addr, "", body),
       IF GGroupExists(ctx.st, addr)
       THEN Reply([ctx.st EXCEPT !.groups[addr].name = body.name,
                                 !.groups[addr].description = body.description],
                  NoBody)
       ELSE Refuse(ctx.st, NotFoundErr))

\* groups().insert
GsInsertGroup(ctx, body) ==
    Do(ctx, Req("groups.insert", body.email, "", body),
       IF body.email \notin GroupAddrs \/ GGroupExists(ctx.st, body.email)
       THEN Refuse(ctx.st, ConflictErr)
       ELSE LET new == [NoGGroup EXCEPT !.exists = TRUE, !.name = body.name,
                                        !.email = body.email,
                                        !.description = body.description]
            IN Reply([ctx.st EXCEPT !.groups[body.email] = new], new))

\* groups().delete
GsDeleteGroupCall(ctx, addr) ==
    Do(ctx, Req("groups.delete", addr, "", NoBody),
       IF GGroupExists(ctx.st, addr)
       THEN Reply([ctx.st EXCEPT !.groups[addr] = NoGGroup], NoBody)
       ELSE Refuse(ctx.st, NotFoundErr))

\* groups().list_all
GsListGroups(ctx) ==
    Do(ctx, Req("groups.list_all", gsuite_domain, "", NoBody),
       Reply(ctx.st,
             [list |-> SelectSeq(AddrOrder,
                                 LAMBDA a : ctx.st.groups[a].exists)]))

IsGMember(st, addr) == GGroupExists(st, addr) /\ st.groups[addr].role # "none"

\* members().get
GsGetMember(ctx, addr, email) ==
    Do(ctx, Req("members.get", addr, email, NoBody),
       IF IsGMember(ctx.st, addr)
       THEN Reply(ctx.st, [role |-> ctx.st.groups[addr].role])
       ELSE Refuse(ctx.st, NotFoundErr))

\* members().insert: a member that exists already is refused
GsInsertMember(ctx, addr, body) ==
    Do(ctx, Req("members.insert", addr, body.email, body),
       IF ~GGroupExists(ctx.st, addr) THEN Refuse(ctx.st, NotFoundErr)
       ELSE IF IsGMember(ctx.st, addr) THEN Refuse(ctx.st, ConflictErr)
       ELSE Reply([ctx.st EXCEPT !.groups[addr].role = body.role], NoBody))

\* members().update
GsUpdateMember(ctx, addr, email, body) ==
    Do(ctx, Req("members.update", addr, email, body),
       IF IsGMember(ctx.st, addr)
       THEN Reply([ctx.st EXCEPT !.groups[addr].role = body.role], NoBody)
       ELSE Refuse(ctx.st, NotFoundErr))

\* members().delete
GsDeleteMember(ctx, addr, email) ==
    Do(ctx, Req("members.delete", addr, email, NoBody),
       IF IsGMember(ctx.st, addr)
       THEN Reply([ctx.st EXCEPT !.groups[addr].role = "none"], NoBody)
       ELSE Refuse(ctx.st, NotFoundErr))

----------------------------------------------------------------------------
(* Helpers of crate::gsuite and configs::User that providers.rs calls      *)

\* crate::gsuite::update_gsuite_user: the record read, with the canonical
\* fields written over it; a new account gets a generated password.
update_gsuite_user(gu, u, change_password) ==
    LET base == [gu EXCEPT !.primary_email = u.email, !.name = u.first_name]
    IN IF change_password
       THEN [base EXCEPT !.password = "generated",
                         !.change_password_at_next_login = TRUE]
       ELSE base

\* User::send_email_new_gsuite_user
send_email_new_gsuite_user(ctx, u) ==
    Do(ctx, Req("send_email_new_gsuite_user", u.email, "", NoBody),
       Reply(ctx.st, NoBody))

RECURSIVE GsInsertUserAliases(_, _, _, _)
GsInsertUserAliases(ctx, key, missing, i) ==
    LET inserted(r) ==
            IF ~r.ok THEN Fail(r.ctx, Propagate(r.err))
            ELSE GsInsertUserAliases(r.ctx, key, missing, i + 1)
    IN IF i > Len(missing) THEN Ret(ctx, "", FALSE)
       ELSE inserted(Do(ctx, Req("users.aliases.insert", key, "",
                                 [alias |-> missing[i]]),
                        Reply([ctx.st EXCEPT
                                  !.user.aliases = @ \cup {missing[i]}],
                              NoBody)))

\* crate::gsuite::update_user_aliases: the canonical aliases the account
\* lacks are inserted.
update_user_aliases(ctx, gu, aliases) ==
    LET listed(l) ==
            IF ~l.ok THEN Fail(l.ctx, Propagate(l.err))
            ELSE GsInsertUserAliases(l.ctx, gu.primary_email,
                                     SelectSeq([i \in DOMAIN aliases |->
                                                   Addr(aliases[i])],
                                               LAMBDA a : a \notin l.val.set),
                                     1)
    IN listed(Do(ctx, Req("users.aliases.list", gu.primary_email, "", NoBody),
                 IF ctx.st.user.exists
                 THEN Reply(ctx.st, [set |-> ctx.st.user.aliases])
                 ELSE Refuse(ctx.st, NotFoundErr)))

RECURSIVE GsInsertGroupAliases(_, _, _, _)
GsInsertGroupAliases(ctx, addr, missing, i) ==
    LET inserted(r) ==
            IF ~r.ok THEN Fail(r.ctx, Propagate(r.err))
            ELSE GsInsertGroupAliases(r.ctx, addr, missing, i + 1)
    IN IF i > Len(missing) THEN Ret(ctx, "", FALSE)
       ELSE inserted(Do(ctx, Req("groups.aliases.insert", addr, "",
                                 [alias |-> missing[i]]),
                        Reply([ctx.st EXCEPT
                                  !.groups[addr].aliases = @ \cup {missing[i]}],
                              NoBody)))

\* crate::gsuite::update_group_aliases: the aliases of the record in hand
\* that the remote group lacks are inserted.
update_group_aliases(ctx, addr, aliases) ==
    LET listed(l) ==
            IF ~l.ok THEN Fail(l.ctx, Propagate(l.err))
            ELSE GsInsertGroupAliases(l.ctx, addr,
                                      SelectSeq(aliases,
                                                LAMBDA a : a \notin l.val.set),
                                      1)
    IN listed(Do(ctx, Req("groups.aliases.list", addr, "", NoBody),
                 IF GGroupExists(ctx.st, addr)
                 THEN Reply(ctx.st, [set |-> ctx.st.groups[addr].aliases])
                 ELSE Refuse(ctx.st, NotFoundErr)))

\* crate::gsuite::update_google_group_settings
update_google_group_settings(ctx, g) ==
    Unit(Do(ctx, Req("groups_settings.update", Addr(g.name), "", NoBody),
            IF GGroupExists(ctx.st, Addr(g.name))
            THEN Reply(ctx.st, NoBody)
            ELSE Refuse(ctx.st, NotFoundErr)))

\* Group aliases written as they stand in the canonical group.
GroupAliasAddrsMutant(g) == g.aliases

\* format!("{}@{}", alias, domain) for every alias of the group
GroupAliasAddrs(g) == [i \in DOMAIN g.aliases |-> Addr(g.aliases[i])]

----------------------------------------------------------------------------
(* impl ProviderOps for gsuite_api::Client *)

GsCheckUserIsMemberOfGroup(ctx, u, group) ==
    LET role == GsRole(u)
        looked(r) ==
            IF r.ok THEN Ret(r.ctx, "", r.val.role = role)
            ELSE IF ~IsNotFound(r.err)
                 THEN Fail(r.ctx,
                           Bail(<<"checking if user is a member of the GSuite group",
                                  u.email, group>>, r.err))
                 ELSE Ret(r.ctx, "", FALSE)
    IN looked(GsGetMember(ctx, Addr(group), u.email))

GsAddUserToGroup(ctx, u, group) ==
    LET checked(is_member) ==
            IF ~is_member.ok THEN is_member
            ELSE IF is_member.flag
                 THEN Unit(GsUpdateMember(is_member.ctx, Addr(group), u.email,
                                          GsMember(u)))
                 ELSE Unit(GsInsertMember(is_member.ctx, Addr(group),
                                          GsMember(u)))
    IN checked(GsCheckUserIsMemberOfGroup(ctx, u, group))

GsRemoveUserFromGroup(ctx, u, group) ==
    Unit(GsDeleteMember(ctx, Addr(group), u.email))

GsListProviderUsers(ctx) == Listing(GsListUsers(ctx))

GsListProviderGroups(ctx) ==
    LET listed(r) ==
            IF r.ok
            THEN RetList(r.ctx, [i \in DOMAIN r.val.list |->
                                    r.ctx.st.groups[r.val.list[i]].name])
            ELSE Fail(r.ctx, Propagate(r.err))
    IN listed(GsListGroups(ctx))

RECURSIVE GsAddPhase(_, _, _)
GsAddPhase(ctx, u, i) ==
    LET added(a) == IF ~a.ok THEN a ELSE GsAddPhase(a.ctx, u, i + 1)
        checked(is_member) ==
            IF ~is_member.ok THEN is_member
            ELSE IF ~is_member.flag
                 THEN added(GsAddUserToGroup(is_member.ctx, u, u.groups[i]))
                 ELSE GsAddPhase(is_member.ctx, u, i + 1)
    IN IF i > Len(u.groups) THEN Ret(ctx, "", FALSE)
       ELSE checked(GsCheckUserIsMemberOfGroup(ctx, u, u.groups[i]))

RECURSIVE GsRemovePhase(_, _, _, _)
GsRemovePhase(ctx, u, names, i) ==
    LET removed(d) ==
            IF ~d.ok THEN d ELSE GsRemovePhase(d.ctx, u, names, i + 1)
        checked(is_member) ==
            IF ~is_member.ok THEN is_member
            ELSE IF is_member.flag
                 THEN removed(GsRemoveUserFromGroup(is_member.ctx, u, names[i]))
                 ELSE GsRemovePhase(is_member.ctx, u, names, i + 1)
    IN IF i > Len(names) THEN Ret(ctx, "", FALSE)
       ELSE IF ContainsElem(u.groups, names[i])
            THEN GsRemovePhase(ctx, u, names, i + 1)
            ELSE checked(GsCheckUserIsMemberOfGroup(ctx, u, names[i]))

\* crate::gsuite::update_user_google_groups: the membership reconciliation
\* (add the missing canonical groups, list, remove the others).
update_user_google_groups(ctx, u) ==
    LET listed(l) == IF ~l.ok THEN l ELSE GsRemovePhase(l.ctx, u, l.list, 1)
        added(a) == IF ~a.ok THEN a ELSE listed(GsListProviderGroups(a.ctx))
    IN added(GsAddPhase(ctx, u, 1))

\* Steps after the primary update or insert that begin with the
\* new-account notification, in the update branch as well.
GsAfterUpsertMutant(ctx, gsuite_user, u, id) ==
    LET grouped(gr) == IF ~gr.ok THEN gr ELSE Ret(gr.ctx, id, FALSE)
        aliased(al) ==
            IF ~al.ok THEN al
            ELSE grouped(update_user_google_groups(al.ctx, u))
        mailed(m) ==
            IF ~m.ok THEN Fail(m.ctx, Propagate(m.err))
            ELSE aliased(update_user_aliases(m.ctx, gsuite_user, u.aliases))
    IN mailed(send_email_new_gsuite_user(ctx, u))

\* Steps after the primary update or insert that end with an empty id.
GsAfterUpsertEmptyIdMutant(ctx, gsuite_user, u, id) ==
    LET grouped(gr) == IF ~gr.ok THEN gr ELSE Ret(gr.ctx, "", FALSE)
        aliased(al) ==
            IF ~al.ok THEN al
            ELSE grouped(update_user_google_groups(al.ctx, u))
    IN aliased(update_user_aliases(ctx, gsuite_user, u.aliases))

\* Steps after the primary update or insert that reconcile the group
\* memberships before the aliases.
GsAfterUpsertGroupsFirstMutant(ctx, gsuite_user, u, id) ==
    LET aliased(al) == IF ~al.ok THEN al ELSE Ret(al.ctx, id, FALSE)
        grouped(gr) ==
            IF ~gr.ok THEN gr
            ELSE aliased(update_user_aliases(gr.ctx, gsuite_user, u.aliases))
    IN grouped(update_user_google_groups(ctx, u))

\* The steps of ensure_user after the primary update or insert.
GsAfterUpsert(ctx, gsuite_user, u, id) ==
    LET grouped(gr) == IF ~gr.ok THEN gr ELSE Ret(gr.ctx, id, FALSE)
        aliased(al) ==
            IF ~al.ok THEN al
            ELSE grouped(update_user_google_groups(al.ctx, u))
    IN aliased(update_user_aliases(ctx, gsuite_user, u.aliases))

GsEnsureUser(ctx, u) ==
    LET updated(up, gsuite_user) ==
            IF ~up.ok THEN Fail(up.ctx, Propagate(up.err))
            ELSE GsAfterUpsert(up.ctx, gsuite_user, u, gsuite_user.id)
        mailed(m, gsuite_user, id) ==
            IF ~m.ok THEN Fail(m.ctx, Propagate(m.err))
            ELSE GsAfterUpsert(m.ctx, gsuite_user, u, id)
        inserted(new_gsuite_user, gsuite_user) ==
            IF ~new_gsuite_user.ok
            THEN Fail(new_gsuite_user.ctx, Propagate(new_gsuite_user.err))
            ELSE mailed(send_email_new_gsuite_user(new_gsuite_user.ctx, u),
                        gsuite_user, new_gsuite_user.val.id)
        update(c, gsuite_user) ==
            updated(GsUpdateUser(c, gsuite_user.id, gsuite_user), gsuite_user)
        insert(c, gsuite_user) ==
            inserted(GsInsertUser(c, gsuite_user), gsuite_user)
        looked(g) ==
            IF g.ok THEN update(g.ctx, update_gsuite_user(g.val, u, FALSE))
            ELSE IF ~IsNotFound(g.err)
                 THEN Fail(g.ctx,
                           Bail(<<"checking if user exists in GSuite", u.email,
                                  "GSuite">>, g.err))
                 ELSE insert(g.ctx, update_gsuite_user(NoGUser, u, TRUE))
    IN looked(GsGetUser(ctx, u.email))

\* The steps of ensure_group after the primary update or insert.
GsAfterGroupUpsert(ctx, g, aliases) ==
    LET aliased(al) ==
            IF ~al.ok THEN al ELSE update_google_group_settings(al.ctx, g)
    IN aliased(update_group_aliases(ctx, Addr(g.name), aliases))

GsEnsureGroup(ctx, g) ==
    LET updated(up) ==
            IF ~up.ok THEN Fail(up.ctx, Propagate(up.err))
            ELSE GsAfterGroupUpsert(up.ctx, g, GroupAliasAddrs(g))
        inserted(new_group) ==
            IF ~new_group.ok
            THEN Fail(new_group.ctx, Propagate(new_group.err))
            ELSE GsAfterGroupUpsert(new_group.ctx, g,
                     SelectSeq(GroupAliasAddrs(g),
                               LAMBDA a : a \in new_group.val.aliases))
        looked(google_group) ==
            IF google_group.ok
            THEN updated(GsUpdateGroup(google_group.ctx, Addr(g.name),
                             [google_group.val EXCEPT
                                 !.description = g.description,
                                 !.aliases = Range(GroupAliasAddrs(g))]))
            ELSE IF ~IsNotFound(google_group.err)
                 THEN Fail(google_group.ctx,
                           Bail(<<"checking if group exists in GSuite", g.name,
                                  "GSuite">>, google_group.err))
                 ELSE inserted(GsInsertGroup(google_group.ctx,
                                   [NoGGroup EXCEPT
                                       !.name = g.name,
                                       !.email = Addr(g.name),
                                       !.description = g.description,
                                       !.aliases = Range(GroupAliasAddrs(g))]))
    IN looked(GsGetGroup(ctx, Addr(g.name)))

\* A delete_user that writes a fresh record instead of the one it read.
GsDeleteUserMutant(ctx, u) ==
    LET looked(g) ==
            IF ~g.ok THEN Fail(g.ctx, Propagate(g.err))
            ELSE Unit(GsUpdateUser(g.ctx, u.email,
                          [NoGUser EXCEPT
                              !.primary_email = u.email,
                              !.suspended = TRUE,
                              !.suspension_reason =
                                  "No longer in config file."]))
    IN looked(GsGetUser(ctx, u.email))

GsDeleteUser(ctx, u) ==
    LET looked(g) ==
            IF ~g.ok THEN Fail(g.ctx, Propagate(g.err))
            ELSE Unit(GsUpdateUser(g.ctx, u.email,
                          [g.val EXCEPT
                              !.suspended = TRUE,
                              !.suspension_reason =
                                  "No longer in config file."]))
    IN looked(GsGetUser(ctx, u.email))

\* A delete_group that takes a group that is not there for deleted.
GsDeleteGroupMutant(ctx, g) ==
    LET deleted(d) ==
            IF d.ok \/ IsNotFound(d.err) THEN Ret(d.ctx, "", FALSE)
            ELSE Fail(d.ctx, Propagate(d.err))
    IN deleted(GsDeleteGroupCall(ctx, Addr(g.name)))

GsDeleteGroup(ctx, g) == Unit(GsDeleteGroupCall(ctx, Addr(g.name)))


----------------------------------------------------------------------------
(* SSO-directory provider: the remote tenant as the okta client sees it.   *)
(* okta.user is the account whose login is Email, okta.groups is the group *)
(* listing in the order the tenant returns it, okta.members is the set of  *)
(* group ids the account belongs to.                                       *)

NoOUser == [exists |-> FALSE, id |-> "",
            profile |-> [email |-> "", login |-> "", first_name |-> "",
                         department |-> "", organization |-> ""]]

\* okta::types::UserProfile built from the canonical user
OktaProfile(u) == [email |-> u.email, login |-> u.email,
                   first_name |-> u.first_name, department |-> u.department,
                   organization |-> "corp"]

\* user.email.replace('@', "%40")
EscapeAt(email) == IF email = Email THEN "alice%40corp.com" ELSE email

\* user().get
OkGetUser(ctx, key) ==
    Do(ctx, Req("user.get", key, "", NoBody),
       IF ctx.st.user.exists /\ key = EscapeAt(ctx.st.user.profile.login)
       THEN Reply(ctx.st, ctx.st.user)
       ELSE Refuse(ctx.st, NotFoundErr))

\* user().update
OkUpdateUser(ctx, id, body) ==
    Do(ctx, Req("user.update", id, "", body),
       IF ctx.st.user.exists /\ id = ctx.st.user.id
       THEN Reply([ctx.st EXCEPT !.user.profile = body.profile], NoBody)
       ELSE Refuse(ctx.st, NotFoundErr))

\* user().create
OkCreateUser(ctx, body) ==
    Do(ctx, Req("user.create", body.profile.login, "", body),
       IF ctx.st.user.exists THEN Refuse(ctx.st, ValidationErr)
       ELSE LET new == [exists |-> TRUE, id |-> "00u1",
                        profile |-> body.profile]
            IN Reply([ctx.st EXCEPT !.user = new], new))

\* user().list_all
OkListUsers(ctx) ==
    Do(ctx, Req("user.list_all", "", "", NoBody),
       Reply(ctx.st, [list |-> IF ctx.st.user.exists
                               THEN <<ctx.st.user.id>> ELSE <<>>]))

\* group().list_all: the groups whose name starts with the query, in the
\* tenant's order ("engineering" is the one modelled name with a proper
\* prefix among the queries)
OkListGroups(ctx, query) ==
    LET starts(name) == \/ query = ""
                        \/ name = query
                        \/ (name = "engineering" /\ query = "eng")
    IN Do(ctx, Req("group.list_all", query, "", NoBody),
          Reply(ctx.st,
                [list |-> SelectSeq(ctx.st.groups,
                                    LAMBDA g : starts(g.name))]))

\* group().update
OkUpdateGroup(ctx, id, body) ==
    Do(ctx, Req("group.update", id, "", body),
       IF \E i \in DOMAIN ctx.st.groups : ctx.st.groups[i].id = id
       THEN Reply([ctx.st EXCEPT !.groups =
                       [i \in DOMAIN ctx.st.groups |->
                           IF ctx.st.groups[i].id = id
                           THEN [ctx.st.groups[i] EXCEPT
                                    !.name = body.name,
                                    !.description = body.description]
                           ELSE ctx.st.groups[i]]],
                  NoBody)
       ELSE Refuse(ctx.st, NotFoundErr))

\* Identifier the tenant gives to the n-th group it has created.
GroupId(n) == <<"00g1", "00g2", "00g3", "00g4", "00g5", "00g6">>[n]

\* group().create
OkCreateGroup(ctx, body) ==
    Do(ctx, Req("group.create", body.name, "", body),
       Reply([ctx.st EXCEPT
                 !.groups = Append(@, [id |-> GroupId(ctx.st.created + 1),
                                       name |-> body.name,
                                       description |-> body.description]),
                 !.created = @ + 1],
             NoBody))

\* group().delete
OkDeleteGroupCall(ctx, id) ==
    Do(ctx, Req("group.delete", id, "", NoBody),
       IF \E i \in DOMAIN ctx.st.groups : ctx.st.groups[i].id = id
       THEN Reply([ctx.st EXCEPT
                      !.groups = SelectSeq(@, LAMBDA g : g.id # id),
                      !.members = @ \ {id}],
                  NoBody)
       ELSE Refuse(ctx.st, NotFoundErr))

----------------------------------------------------------------------------
(* impl ProviderOps for okta::Client *)

\* An ensure_user that creates the user whatever the lookup found.
OkEnsureUserMutant(ctx, u) ==
    LET profile == OktaProfile(u)
        created(c) == IF ~c.ok THEN Fail(c.ctx, Propagate(c.err))
                      ELSE Ret(c.ctx, c.val.id, FALSE)
        looked(g) ==
            IF ~g.ok /\ ~IsNotFound(g.err)
            THEN Fail(g.ctx, Bail(<<"checking if user exists in Okta",
                                    u.email, "Okta">>, g.err))
            ELSE created(OkCreateUser(g.ctx, [profile |-> profile,
                                              group_ids |-> <<>>]))
    IN looked(OkGetUser(ctx, EscapeAt(u.email)))

\* An ensure_user that goes on to the create after a successful update.
OkEnsureUserUpdateThenCreateMutant(ctx, u) ==
    LET profile == OktaProfile(u)
        created(c) == IF ~c.ok THEN Fail(c.ctx, Propagate(c.err))
                      ELSE Ret(c.ctx, c.val.id, FALSE)
        create(c0) == created(OkCreateUser(c0, [profile |-> profile,
                                                group_ids |-> <<>>]))
        updated(up) ==
            IF ~up.ok THEN Fail(up.ctx, Propagate(up.err))
            ELSE create(up.ctx)
        looked(g) ==
            IF g.ok
            THEN updated(OkUpdateUser(g.ctx, g.val.id,
                                      [g.val EXCEPT !.profile = profile]))
            ELSE IF ~IsNotFound(g.err)
                 THEN Fail(g.ctx, Bail(<<"checking if user exists in Okta",
                                         u.email, "Okta">>, g.err))
                 ELSE create(g.ctx)
    IN looked(OkGetUser(ctx, EscapeAt(u.email)))

OkEnsureUser(ctx, u) ==
    LET profile == OktaProfile(u)
        created(c) == IF ~c.ok THEN Fail(c.ctx, Propagate(c.err))
                      ELSE Ret(c.ctx, c.val.id, FALSE)
        create(c0) == created(OkCreateUser(c0, [profile |-> profile,
                                                group_ids |-> <<>>]))
        updated(up, user_id) ==
            IF ~up.ok THEN Fail(up.ctx, Propagate(up.err))
            ELSE IF user_id = "" THEN create(up.ctx)
            ELSE Ret(up.ctx, user_id, FALSE)
        looked(g) ==
            IF g.ok
            THEN updated(OkUpdateUser(g.ctx, g.val.id,
                                      [g.val EXCEPT !.profile = profile]),
                         g.val.id)
            ELSE IF ~IsNotFound(g.err)
                 THEN Fail(g.ctx, Bail(<<"checking if user exists in Okta",
                                         u.email, "Okta">>, g.err))
                 ELSE create(g.ctx)
    IN looked(OkGetUser(ctx, EscapeAt(u.email)))

\* A scan that takes the first listed group, whatever its name.
OkFirstMatchMutant(results, name, i) ==
    IF i > Len(results) THEN 0 ELSE i

\* for result in results { if profile.name == group.name { ...; return } }
RECURSIVE OkFirstMatch(_, _, _)
OkFirstMatch(results, name, i) ==
    IF i > Len(results) THEN 0
    ELSE IF results[i].name = name THEN i
    ELSE OkFirstMatch(results, name, i + 1)

\* An ensure_group whose create is conditional at the provider: the group
\* is not created when one of that name exists by the time of the call.
OkEnsureGroupAfterScanMutant(c, g, results) ==
    LET i == OkFirstMatch(results, g.name, 1)
    IN IF i # 0
       THEN IF results[i].description # g.description
            THEN Unit(OkUpdateGroup(c, results[i].id,
                          [results[i] EXCEPT !.description = g.description]))
            ELSE Ret(c, "", FALSE)
       ELSE IF OkFirstMatch(c.st.groups, g.name, 1) # 0
            THEN Ret(c, "", FALSE)
            ELSE Unit(OkCreateGroup(c, [id |-> "", name |-> g.name,
                                        description |-> g.description]))

\* ensure_group from the loop over the listing to the return.
OkEnsureGroupAfterScan(c, g, results) ==
    LET found(i) ==
            IF i # 0
            THEN IF results[i].description # g.description
                 THEN Unit(OkUpdateGroup(c, results[i].id,
                               [results[i] EXCEPT
                                   !.description = g.description]))
                 ELSE Ret(c, "", FALSE)
            ELSE Unit(OkCreateGroup(c, [id |-> "", name |-> g.name,
                                        description |-> g.description]))
    IN found(OkFirstMatch(results, g.name, 1))

OkEnsureGroup(ctx, g) ==
    LET listed(l) ==
            IF ~l.ok THEN Fail(l.ctx, Propagate(l.err))
            ELSE OkEnsureGroupAfterScan(l.ctx, g, l.val.list)
    IN listed(OkListGroups(ctx, g.name))

OkCheckUserIsMemberOfGroup(ctx, u, group) == Ret(ctx, "", FALSE)

OkAddUserToGroup(ctx, u, group) == Ret(ctx, "", FALSE)

OkRemoveUserFromGroup(ctx, u, group) == Ret(ctx, "", FALSE)

OkListProviderUsers(ctx) == Listing(OkListUsers(ctx))

OkListProviderGroups(ctx) ==
    LET listed(r) ==
            IF r.ok
            THEN RetList(r.ctx, [i \in DOMAIN r.val.list |->
                                    r.val.list[i].name])
            ELSE Fail(r.ctx, Propagate(r.err))
    IN listed(OkListGroups(ctx, ""))

OkDeleteUser(ctx, u) == Ret(ctx, "", FALSE)

\* A delete_group that deletes every listed group with the canonical name.
OkDeleteGroupMutant(ctx, g) ==
    LET again(c, results, i, d) ==
            IF ~d.ok THEN Fail(d.ctx, Propagate(d.err))
            ELSE LET j == OkFirstMatch(results, g.name, i + 1)
                 IN IF j = 0 THEN Ret(d.ctx, "", FALSE)
                    ELSE Unit(OkDeleteGroupCall(d.ctx, results[j].id))
        found(c, results, i) ==
            IF i # 0
            THEN again(c, results, i, OkDeleteGroupCall(c, results[i].id))
            ELSE Ret(c, "", FALSE)
        listed(l) ==
            IF ~l.ok THEN Fail(l.ctx, Propagate(l.err))
            ELSE found(l.ctx, l.val.list, OkFirstMatch(l.val.list, g.name, 1))
    IN listed(OkListGroups(ctx, g.name))

OkDeleteGroup(ctx, g) ==
    LET found(c, results, i) ==
            IF i # 0 THEN Unit(OkDeleteGroupCall(c, results[i].id))
            ELSE Ret(c, "", FALSE)
        listed(l) ==
            IF ~l.ok THEN Fail(l.ctx, Propagate(l.err))
            ELSE found(l.ctx, l.val.list, OkFirstMatch(l.val.list, g.name, 1))
    IN listed(OkListGroups(ctx, g.name))

----------------------------------------------------------------------------
(* No-group provider: the remote business as ramp_api sees it.             *)
(* ramp.departments is the department listing, ramp.invites the number of  *)
(* deferred invitations recorded for Email, ramp.duplicates whether the    *)
(* business accepts an invitation for an address that has one already.     *)

\* departments().get_all
RampGetDepartments(ctx) ==
    Do(ctx, Req("departments.get_all", "", "", NoBody),
       Reply(ctx.st, [list |-> ctx.st.departments]))

\* users().post_deferred
RampPostDeferred(ctx, body) ==
    Do(ctx, Req("users.post_deferred", body.email, "", body),
       IF ctx.st.invites > 0 /\ ctx.st.duplicates = "reject"
       THEN Refuse(ctx.st, ConflictErr)
       ELSE Reply([ctx.st EXCEPT !.invites = @ + 1], [id |-> "task"]))

\* users().get_all
RampGetUsers(ctx) ==
    Do(ctx, Req("users.get_all", "", "", NoBody),
       Reply(ctx.st, [list |-> IF ctx.st.invites > 0 THEN <<Email>>
                               ELSE <<>>]))

\* for dept in departments { if dept.name == user.department { ...; break } }
RECURSIVE RampDepartmentId(_, _, _)
RampDepartmentId(departments, name, i) ==
    IF i > Len(departments) THEN ""
    ELSE IF departments[i].name = name THEN departments[i].id
    ELSE RampDepartmentId(departments, name, i + 1)

----------------------------------------------------------------------------
(* impl ProviderOps for ramp_api::Client *)

RampEnsureUser(ctx, u) ==
    LET posted(r) == IF ~r.ok THEN Fail(r.ctx, Propagate(r.err))
                     ELSE Ret(r.ctx, r.val.id, FALSE)
        listed(departments) ==
            IF ~departments.ok
            THEN Fail(departments.ctx, Propagate(departments.err))
            ELSE posted(RampPostDeferred(departments.ctx,
                            [email |-> u.email, first_name |-> u.first_name,
                             role |-> "BUSINESS_USER",
                             direct_manager_id |-> u.manager_ramp_id,
                             department_id |->
                                 RampDepartmentId(departments.val.list,
                                                  u.department, 1),
                             location_id |-> ""]))
    IN listed(RampGetDepartments(ctx))

RampEnsureGroup(ctx, g) == Ret(ctx, "", FALSE)

RampCheckUserIsMemberOfGroup(ctx, u, group) == Ret(ctx, "", FALSE)

RampAddUserToGroup(ctx, u, group) == Ret(ctx, "", FALSE)

RampRemoveUserFromGroup(ctx, u, group) == Ret(ctx, "", FALSE)

RampListProviderUsers(ctx) == Listing(RampGetUsers(ctx))

\* A list_provider_groups that reports the departments as groups.
RampListProviderGroupsMutant(ctx) ==
    LET listed(r) ==
            IF r.ok
            THEN RetList(r.ctx, [i \in DOMAIN r.val.list |-> r.val.list[i].name])
            ELSE Fail(r.ctx, Propagate(r.err))
    IN listed(RampGetDepartments(ctx))

RampListProviderGroups(ctx) == RetList(ctx, <<>>)

RampDeleteUser(ctx, u) == Ret(ctx, "", FALSE)

RampDeleteGroup(ctx, g) == Ret(ctx, "", FALSE)


----------------------------------------------------------------------------
(* Dispatch of the trait methods on the implementation behind `self` *)

Providers == {"ramp", "github", "gsuite", "okta"}

ensure_user(ctx, u) ==
    CASE provider = "ramp" -> RampEnsureUser(ctx, u)
      [] provider = "github" -> GhEnsureUser(ctx, u)
      [] provider = "gsuite" -> GsEnsureUser(ctx, u)
      [] provider = "okta" -> OkEnsureUser(ctx, u)

ensure_group(ctx, g) ==
    CASE provider = "ramp" -> RampEnsureGroup(ctx, g)
      [] provider = "github" -> GhEnsureGroup(ctx, g)
      [] provider = "gsuite" -> GsEnsureGroup(ctx, g)
      [] provider = "okta" -> OkEnsureGroup(ctx, g)

check_user_is_member_of_group(ctx, u, group) ==
    CASE provider = "ramp" -> RampCheckUserIsMemberOfGroup(ctx, u, group)
      [] provider = "github" -> GhCheckUserIsMemberOfGroup(ctx, u, group)
      [] provider = "gsuite" -> GsCheckUserIsMemberOfGroup(ctx, u, group)
      [] provider = "okta" -> OkCheckUserIsMemberOfGroup(ctx, u, group)

add_user_to_group(ctx, u, group) ==
    CASE provider = "ramp" -> RampAddUserToGroup(ctx, u, group)
      [] provider = "github" -> GhAddUserToGroup(ctx, u, group)
      [] provider = "gsuite" -> GsAddUserToGroup(ctx, u, group)
      [] provider = "okta" -> OkAddUserToGroup(ctx, u, group)

remove_user_from_group(ctx, u, group) ==
    CASE provider = "ramp" -> RampRemoveUserFromGroup(ctx, u, group)
      [] provider = "github" -> GhRemoveUserFromGroup(ctx, u, group)
      [] provider = "gsuite" -> GsRemoveUserFromGroup(ctx, u, group)
      [] provider = "okta" -> OkRemoveUserFromGroup(ctx, u, group)

list_provider_users(ctx) ==
    CASE provider = "ramp" -> RampListProviderUsers(ctx)
      [] provider = "github" -> GhListProviderUsers(ctx)
      [] provider = "gsuite" -> GsListProviderUsers(ctx)
      [] provider = "okta" -> OkListProviderUsers(ctx)

list_provider_groups(ctx) ==
    CASE provider = "ramp" -> RampListProviderGroups(ctx)
      [] provider = "github" -> GhListProviderGroups(ctx)
      [] provider = "gsuite" -> GsListProviderGroups(ctx)
      [] provider = "okta" -> OkListProviderGroups(ctx)

delete_user(ctx, u) ==
    CASE provider = "ramp" -> RampDeleteUser(ctx, u)
      [] provider = "github" -> GhDeleteUser(ctx, u)
      [] provider = "gsuite" -> GsDeleteUser(ctx, u)
      [] provider = "okta" -> OkDeleteUser(ctx, u)

delete_group(ctx, g) ==
    CASE provider = "ramp" -> RampDeleteGroup(ctx, g)
      [] provider = "github" -> GhDeleteGroup(ctx, g)
      [] provider = "gsuite" -> GsDeleteGroup(ctx, g)
      [] provider = "okta" -> OkDeleteGroup(ctx, g)

----------------------------------------------------------------------------
(* State machine *)

\* Canonical users: configs::User restricted to the fields the adapters read.
\* Only the org-membership provider reads the github handle.
Users(p) ==
    LET all == [email : {Email}, first_name : {"Alice"},
                department : {"Engineering"}, manager_ramp_id : {"m1"},
                github : {"", Handle}, is_group_admin : BOOLEAN,
                groups : GroupLists, aliases : {<<"al">>}]
    IN {u \in all :
          /\ (u.github = "") => (p = "github" /\ ~u.is_group_admin
                                  /\ u.groups = <<"eng">>)
          /\ (p = "ramp") => u.groups = <<"eng">>}

\* Canonical groups: configs::Group.
Groups == [name : {"eng"}, description : {"Design team"},
           aliases : {<<"design">>}, repos : {<<"site">>}]

NoGroup == [name |-> "", description |-> "", aliases |-> <<>>, repos |-> <<>>]

NameOnly(n) == [NoGroup EXCEPT !.name = n]

\* Remote accounts the org-membership adapter may be pointed at.
GhInit ==
    LET GhTeams(s) == {NoTeam} \cup
            {[exists |-> TRUE, name |-> s, description |-> d.description,
              parent |-> d.parent, role |-> r] :
                d \in (IF s = "eng"
                       THEN {[description |-> "old", parent |-> 7],
                             [description |-> "Design team", parent |-> 0]}
                       ELSE {[description |-> "Ops team", parent |-> 0]}),
                r \in {"none", "member", "maintainer"}}
    IN {st \in [org : {"none", "member", "admin"},
                teams : [GroupNames -> UNION {GhTeams(s) : s \in GroupNames}]] :
           \A s \in GroupNames :
               /\ st.teams[s] \in GhTeams(s)
               /\ st.org = "none" => st.teams[s].role = "none"}

\* Remote domains the groupware adapter may be pointed at.
GsInit ==
    LET GsUsers == {NoGUser} \cup
            {[NoGUser EXCEPT !.exists = TRUE, !.id = "u1",
                             !.primary_email = Email, !.name = n] :
                n \in {"Alice", "Alicia"}}
        GsGroups(n) == {NoGGroup} \cup
            {[NoGGroup EXCEPT !.exists = TRUE, !.name = n, !.email = Addr(n),
                              !.description = d, !.role = r] :
                d \in (IF n = "eng" THEN {"old", "Design team"}
                       ELSE {"Ops team"}),
                r \in {"none", "MEMBER", "OWNER"}}
    IN {st \in [user : GsUsers,
                groups : [GroupAddrs ->
                             UNION {GsGroups(n) : n \in GroupNames}]] :
           \A n \in GroupNames : st.groups[Addr(n)] \in GsGroups(n)}

\* Remote tenants the SSO-directory adapter may be pointed at.
OkInit(u) ==
    LET OkUsers == {NoOUser} \cup
            {[exists |-> TRUE, id |-> "00u1",
              profile |-> [OktaProfile(u) EXCEPT !.first_name = n]] :
                n \in {"Alice", "Alicia"}}
        one == {[name |-> "eng", description |-> "old"],
                [name |-> "eng", description |-> "Design team"],
                [name |-> "ops", description |-> "Ops team"],
                [name |-> "engineering", description |-> "old"]}
        OkGroupLists ==
            {<<>>}
            \cup {<<[id |-> GroupId(1), name |-> a.name,
                     description |-> a.description]>> : a \in one}
            \cup {<<[id |-> GroupId(1), name |-> a.name,
                     description |-> a.description],
                    [id |-> GroupId(2), name |-> b.name,
                     description |-> b.description]>> : a \in one, b \in one}
    IN {st \in [user : OkUsers, groups : OkGroupLists,
                created : {0, 1, 2},
                members : SUBSET {GroupId(1), GroupId(2)}] :
           /\ st.created = Len(st.groups)
           /\ st.members \subseteq
                  {st.groups[i].id : i \in DOMAIN st.groups}
           /\ (st.members # {} => st.user.exists)}

\* Remote businesses the no-group adapter may be pointed at.
RampInit == [departments : {<<>>,
                            <<[id |-> "d1", name |-> "Engineering"]>>,
                            <<[id |-> "d0", name |-> "Sales"],
                              [id |-> "d1", name |-> "Engineering"]>>},
             invites : {0, 1},
             duplicates : {"accept", "reject"}]

\* The calls that create the remote user record (or invite the user).
UserCreateApis == {"orgs.set_membership_for_user", "users.insert",
                   "user.create", "users.post_deferred"}

\* The calls that change the remote account.
MutationApis == UserCreateApis \cup
    {"orgs.remove_member", "teams.update_in_org", "teams.create",
     "teams.delete_in_org", "teams.add_or_update_membership_for_user_in_org",
     "teams.remove_membership_for_user_in_org",
     "users.update", "users.aliases.insert", "groups.update", "groups.insert",
     "groups.delete", "groups.aliases.insert", "groups_settings.update",
     "members.insert", "members.update", "members.delete",
     "user.update", "group.update", "group.create", "group.delete"}

\* Number of calls of the log that went to one of the given endpoints.
Count(calls, apis) == Cardinality({i \in DOMAIN calls : calls[i].api \in apis})

NoSummary == [op |-> "none", arg |-> NoGroup, ok |-> TRUE, clean |-> TRUE,
              absent |-> FALSE, creates |-> 0, mutations |-> 0]

\* What the history keeps of the operation before the last one, when a
\* reconciliation pass is repeated.
Summary(l) ==
    IF l.op # "init"
    THEN [op |-> l.op, arg |-> l.arg, ok |-> l.ok, clean |-> l.fault.at = 0,
          absent |-> l.calls # <<>> /\ l.calls[1].resp = 404,
          creates |-> Count(l.calls, UserCreateApis),
          mutations |-> Count(l.calls, MutationApis)]
    ELSE NoSummary

NoOp == [op |-> "init", arg |-> NoGroup, ok |-> TRUE, id |-> "",
         flag |-> FALSE, list |-> <<>>, err |-> NoErr, calls |-> <<>>,
         fault |-> NoFault, changed |-> FALSE]

Init ==
    /\ provider \in Providers
    /\ user \in Users(provider)
    /\ remote \in (CASE provider = "ramp" -> RampInit
                     [] provider = "github" -> GhInit
                     [] provider = "gsuite" -> GsInit
                     [] provider = "okta" -> OkInit(user))
    /\ last = NoOp
    /\ prev = NoSummary

\* The faults that can strike an operation: none, or a failure of one of
\* the calls it issues.  A run agrees with the fault-free run r0 up to the
\* call that fails, so the calls that can fail are those of r0.
FaultsOf(r0) ==
    {NoFault} \cup
    [at : {n \in 1..MaxFaultPos : n <= Len(r0.ctx.calls)}, err : FaultErrs]

\* The operation has run to its return: the remote state is what its calls
\* left, and the history records the operation.
Return(op, arg, f, r) ==
    /\ remote' = r.ctx.st
    /\ last' = [op |-> op, arg |-> arg, ok |-> r.ok, id |-> r.id,
                flag |-> r.flag, list |-> r.list, err |-> r.err,
                calls |-> r.ctx.calls, fault |-> f,
                changed |-> r.ctx.st # remote]
    /\ prev' = NoSummary
    /\ UNCHANGED <<provider, user>>

EnsureUser ==
    /\ provider = "ramp" => remote.invites < MaxInvites
    /\ \E f \in FaultsOf(ensure_user(Ctx(remote, NoFault), user)) :
          Return("ensure_user", NoGroup, f, ensure_user(Ctx(remote, f), user))

EnsureGroup ==
    /\ provider = "okta" => remote.created < MaxCreated
    /\ \E g \in Groups :
          \E f \in FaultsOf(ensure_group(Ctx(remote, NoFault), g)) :
              Return("ensure_group", g, f, ensure_group(Ctx(remote, f), g))

CheckMembership ==
    \E n \in GroupNames :
        \E f \in FaultsOf(check_user_is_member_of_group(Ctx(remote, NoFault),
                                                        user, n)) :
            Return("check_user_is_member_of_group", NameOnly(n), f,
                   check_user_is_member_of_group(Ctx(remote, f), user, n))

AddToGroup ==
    \E n \in GroupNames :
        \E f \in FaultsOf(add_user_to_group(Ctx(remote, NoFault), user, n)) :
            Return("add_user_to_group", NameOnly(n), f,
                   add_user_to_group(Ctx(remote, f), user, n))

RemoveFromGroup ==
    \E n \in GroupNames :
        \E f \in FaultsOf(remove_user_from_group(Ctx(remote, NoFault),
                                                 user, n)) :
            Return("remove_user_from_group", NameOnly(n), f,
                   remove_user_from_group(Ctx(remote, f), user, n))

ListProviderUsers ==
    \E f \in FaultsOf(list_provider_users(Ctx(remote, NoFault))) :
        Return("list_provider_users", NoGroup, f,
               list_provider_users(Ctx(remote, f)))

ListProviderGroups ==
    \E f \in FaultsOf(list_provider_groups(Ctx(remote, NoFault))) :
        Return("list_provider_groups", NoGroup, f,
               list_provider_groups(Ctx(remote, f)))

DeleteUser ==
    \E f \in FaultsOf(delete_user(Ctx(remote, NoFault), user)) :
        Return("delete_user", NoGroup, f, delete_user(Ctx(remote, f), user))

DeleteGroup ==
    \E g \in Groups :
        \E f \in FaultsOf(delete_group(Ctx(remote, NoFault), g)) :
            Return("delete_group", g, f, delete_group(Ctx(remote, f), g))

Next ==
    \/ EnsureUser
    \/ EnsureGroup
    \/ CheckMembership
    \/ AddToGroup
    \/ RemoveFromGroup
    \/ ListProviderUsers
    \/ ListProviderGroups
    \/ DeleteUser
    \/ DeleteGroup

Spec == Init /\ [][Next]_vars

----------------------------------------------------------------------------
(* Repeated reconciliation: the orchestrator runs ensure_user or           *)
(* ensure_group for the same canonical entity in two consecutive passes,   *)
(* with no failure of the transport or the provider.                       *)

\* A second pass follows a first one; the history holds two operations.
Again(op, arg, r) ==
    /\ prev.op = "none"
    /\ last.op \in {"init", op}
    /\ last.op = op => last.arg = arg
    /\ remote' = r.ctx.st
    /\ last' = [op |-> op, arg |-> arg, ok |-> r.ok, id |-> r.id,
                flag |-> r.flag, list |-> r.list, err |-> r.err,
                calls |-> r.ctx.calls, fault |-> NoFault,
                changed |-> r.ctx.st # remote]
    /\ prev' = Summary(last)
    /\ UNCHANGED <<provider, user>>

EnsureUserAgain ==
    /\ provider = "ramp" => remote.invites < MaxInvites
    /\ Again("ensure_user", NoGroup, ensure_user(Ctx(remote, NoFault), user))

EnsureGroupAgain ==
    /\ provider = "okta" => remote.created < MaxCreated
    /\ \E g \in Groups :
          Again("ensure_group", g, ensure_group(Ctx(remote, NoFault), g))

NextRepeat ==
    \/ EnsureUserAgain
    \/ EnsureGroupAgain

SpecRepeat == Init /\ [][NextRepeat]_vars


----------------------------------------------------------------------------
(* Reconciliation after a failure: one call of an ensure_user fails, and   *)
(* the next pass runs ensure_user again for the same canonical user with   *)
(* no failure of the transport or the provider.                            *)

\* Number of new-account notifications the calls of a log delivered.
Delivered(calls) ==
    Cardinality({i \in DOMAIN calls :
                    /\ calls[i].api = "send_email_new_gsuite_user"
                    /\ calls[i].resp = 200})

\* The pass r in which the call f.at failed has returned; the history keeps
\* what the pass without the failure, r0, would have returned and left.
Failed(f, r, r0) ==
    /\ last.op = "init"
    /\ remote' = r.ctx.st
    /\ last' = [op |-> "ensure_user", arg |-> NoGroup, ok |-> r.ok,
                id |-> r.id, flag |-> r.flag, list |-> r.list, err |-> r.err,
                calls |-> r.ctx.calls, fault |-> f,
                changed |-> r.ctx.st # remote]
    /\ prev' = [op |-> "ensure_user", arg |-> NoGroup, ok |-> r.ok,
                clean |-> FALSE, absent |-> FALSE,
                creates |-> Count(r.ctx.calls, UserCreateApis),
                mutations |-> Count(r.ctx.calls, MutationApis),
                retried |-> FALSE,
                delivered |-> Delivered(r.ctx.calls),
                goal |-> [ok |-> r0.ok, id |-> r0.id, st |-> r0.ctx.st,
                          delivered |-> Delivered(r0.ctx.calls)]]
    /\ UNCHANGED <<provider, user>>

EnsureUserFails ==
    /\ provider = "ramp" => remote.invites < MaxInvites
    /\ \E f \in FaultsOf(ensure_user(Ctx(remote, NoFault), user)) \ {NoFault} :
          Failed(f, ensure_user(Ctx(remote, f), user),
                 ensure_user(Ctx(remote, NoFault), user))

\* The next pass r, without failure, has returned.
Retried(r) ==
    /\ prev.op = "ensure_user"
    /\ last.fault.at # 0
    /\ remote' = r.ctx.st
    /\ last' = [op |-> "ensure_user", arg |-> NoGroup, ok |-> r.ok,
                id |-> r.id, flag |-> r.flag, list |-> r.list, err |-> r.err,
                calls |-> r.ctx.calls, fault |-> NoFault,
                changed |-> r.ctx.st # remote]
    /\ prev' = [prev EXCEPT !.retried = TRUE,
                            !.delivered = @ + Delivered(r.ctx.calls)]
    /\ UNCHANGED <<provider, user>>

EnsureUserRetry ==
    /\ provider = "ramp" => remote.invites < MaxInvites
    /\ Retried(ensure_user(Ctx(remote, NoFault), user))

NextRetry ==
    \/ EnsureUserFails
    \/ EnsureUserRetry

SpecRetry == Init /\ [][NextRetry]_vars


----------------------------------------------------------------------------
(* Concurrent reconciliation: several ensure_group runs for the same       *)
(* canonical group against the same SSO-directory tenant.  A run suspends  *)
(* at each remote call, so the listing and the write that follows it are   *)
(* separate steps, and steps of different runs interleave.  prev[p] is the *)
(* position of run p, last.arg the canonical group.                        *)

\* Number of concurrent runs.
MaxRuns == 2

Runs == 1..MaxRuns

InitConcurrent ==
    /\ provider = "okta"
    /\ user \in Users(provider)
    /\ remote \in OkInit(user)
    /\ \E g \in Groups : last = [NoOp EXCEPT !.op = "ensure_group", !.arg = g]
    /\ prev = [p \in Runs |-> [pc |-> "scan", results |-> <<>>,
                               calls |-> <<>>, err |-> NoErr]]

\* A failure of the call a run is about to issue, or none.
FaultAt(n) == {NoFault} \cup [at : {n}, err : FaultErrs]

\* results = self.group().list_all(&group.name, "", "").await?
Scan(p) ==
    /\ prev[p].pc = "scan"
    /\ \E f \in FaultAt(1) :
          LET scanned(l) ==
                  /\ remote' = l.ctx.st
                  /\ prev' = [prev EXCEPT
                                 ![p] = [pc |-> IF l.ok THEN "scanned"
                                                ELSE "failed",
                                         results |-> IF l.ok THEN l.val.list
                                                     ELSE <<>>,
                                         calls |-> l.ctx.calls,
                                         err |-> Propagate(l.err)]]
          IN scanned(OkListGroups(Ctx(remote, f), last.arg.name))
    /\ UNCHANGED <<provider, user, last>>

\* the loop over the results and the update or create it ends in
Act(p) ==
    /\ prev[p].pc = "scanned"
    /\ \E f \in FaultAt(2) :
          LET acted(r) ==
                  /\ remote' = r.ctx.st
                  /\ prev' = [prev EXCEPT
                                 ![p] = [pc |-> IF r.ok THEN "done"
                                                ELSE "failed",
                                         results |-> prev[p].results,
                                         calls |-> r.ctx.calls,
                                         err |-> r.err]]
          IN acted(OkEnsureGroupAfterScan(
                       [st |-> remote, calls |-> prev[p].calls, fault |-> f],
                       last.arg, prev[p].results))
    /\ UNCHANGED <<provider, user, last>>

NextConcurrent == \E p \in Runs : Scan(p) \/ Act(p)

SpecConcurrent == InitConcurrent /\ [][NextConcurrent]_vars

----------------------------------------------------------------------------
(* SCIM client (tscim.rs): list, get, create and update send one request   *)
(* and hand the response to to_client_response.  remote is the response    *)
(* the server gives to the next request, last the method called, the       *)
(* response it received and the result it returned, prev the request it    *)
(* sent; user is not used.                                                 *)

\* Status codes of the responses in play.
ScimStatuses == {200, 201, 204, 400, 401, 403, 404, 500}

\* Response bodies in play: a resource or listing of the type the method
\* returns, JSON null, an enterprise error, a SCIM error (whose status
\* field need not be the status of the response), and text that is not
\* JSON.
ScimBodies ==
    {[kind |-> "resource", id |-> i, message |-> "", schemas |-> <<>>,
      status |-> 0, detail |-> ""] : i \in {"usr1", "usr2"}}
    \cup {[kind |-> k, id |-> "", message |-> "", schemas |-> <<>>,
           status |-> 0, detail |-> ""] : k \in {"null", "text"}}
    \cup {[kind |-> "enterprise", id |-> "", message |-> m,
           schemas |-> <<>>, status |-> 0, detail |-> ""] :
             m \in {"Authentication required", "Forbidden"}}
    \cup {[kind |-> "scim", id |-> "", message |-> "",
           schemas |-> <<"urn:ietf:params:scim:api:messages:2.0:Error">>,
           status |-> s, detail |-> d] :
             s \in {400, 404}, d \in {"Invalid", "Resource not found"}}

NoScimBody == [kind |-> "none", id |-> "", message |-> "", schemas |-> <<>>,
               status |-> 0, detail |-> ""]

\* response.json::<T>() succeeds: the body has the shape of T; an
\* Option<T> also accepts null.
Deserializes(body, T) ==
    \/ body.kind = T
    \/ T = "option" /\ body.kind \in {"resource", "null"}
    \/ T = "unit" /\ body.kind = "null"

\* The two results of to_client_response that are not Ok.
ScimApiErr(schemas, status, detail) ==
    [tag |-> "Api", data |-> NoScimBody,
     error |-> [schemas |-> schemas, status |-> status, detail |-> detail]]

ScimClientErr ==
    [tag |-> "Client", data |-> NoScimBody,
     error |-> [schemas |-> <<>>, status |-> 0, detail |-> ""]]

\* A classification that takes every 2xx status for a success.
to_client_response_mutant(response, T) ==
    IF response.status \in 200..299
    THEN IF Deserializes(response.body, T)
         THEN [tag |-> "Ok", data |-> response.body,
               error |-> ScimClientErr.error]
         ELSE ScimClientErr
    ELSE IF Deserializes(response.body, "scim")
         THEN ScimApiErr(response.body.schemas, response.body.status,
                         response.body.detail)
         ELSE ScimClientErr

to_client_response(response, T) ==
    IF response.status = 200
    THEN IF Deserializes(response.body, T)
         THEN [tag |-> "Ok", data |-> response.body,
               error |-> ScimClientErr.error]
         ELSE ScimClientErr
    ELSE IF response.status = 401
         THEN IF Deserializes(response.body, "enterprise")
              THEN ScimApiErr(<<>>, response.status % 65536,
                              response.body.message)
              ELSE ScimClientErr
         ELSE IF Deserializes(response.body, "scim")
              THEN ScimApiErr(response.body.schemas, response.body.status,
                              response.body.detail)
              ELSE ScimClientErr

\* The two clients, and the ids their methods are called with.
ScimClients == {"user", "group"}

ScimIds == {"usr1", "grp1"}

base_endpoint == "https://airtable.com/scim/v2/Users"

singular_endpoint == "https://airtable.com/scim/v2/Group"

plural_endpoint == "https://airtable.com/scim/v2/Groups"

\* Url::parse of an endpoint: the origin and the segments of the path.
UrlParse(base) ==
    [origin |-> "https://airtable.com",
     path |-> CASE base = base_endpoint -> <<"scim", "v2", "Users">>
                [] base = singular_endpoint -> <<"scim", "v2", "Group">>
                [] base = plural_endpoint -> <<"scim", "v2", "Groups">>]

\* Url::join, the resolution of a reference against a URL: a reference
\* that starts with "/" replaces the whole path ("/" itself leaves the
\* root, one empty segment); any other reference replaces the last
\* segment of the path.
UrlJoin(u, reference) ==
    IF reference = "/"
    THEN [u EXCEPT !.path = <<"">>]
    ELSE [u EXCEPT !.path = Append(SubSeq(u.path, 1, Len(u.path) - 1),
                                   reference)]

url(base, path) ==
    IF path.some
    THEN UrlJoin(UrlJoin(UrlParse(base), "/"), path.value)
    ELSE UrlParse(base)

NoPath == [some |-> FALSE, value |-> ""]

SomePath(id) == [some |-> TRUE, value |-> id]

\* The endpoint each method of each client builds its URL from.
EndpointOf(client, op) ==
    IF client = "user" THEN base_endpoint
    ELSE IF op \in {"create", "update"} THEN singular_endpoint
    ELSE plural_endpoint

InitScim ==
    /\ provider = "airtable"
    /\ user = NoScimBody
    /\ remote \in [status : ScimStatuses, body : ScimBodies]
    /\ last = [op |-> "init", response |-> [status |-> 0, body |-> NoScimBody],
               result |-> ScimClientErr]
    /\ prev = NoSummary

\* The method returns what to_client_response made of the response, and
\* the server has its next response ready.
Classified(op, result) ==
    /\ last' = [op |-> op, response |-> remote, result |-> result]
    /\ remote' \in [status : ScimStatuses, body : ScimBodies]

\* The request the method sent.
Requested(client, op, method, path) ==
    prev' = [client |-> client, id |-> path.value, method |-> method,
             url |-> url(EndpointOf(client, op), path)]

ScimList ==
    /\ \E client \in ScimClients : Requested(client, "list", "GET", NoPath)
    /\ Classified("list", to_client_response(remote, "resource"))
    /\ UNCHANGED <<provider, user>>

\* A get that takes a not-found response for an absent record.
ScimGetMutant ==
    /\ \E client \in ScimClients, id \in ScimIds :
          Requested(client, "get", "GET", SomePath(id))
    /\ Classified("get",
                  IF remote.status = 404
                  THEN [tag |-> "Ok",
                        data |-> [NoScimBody EXCEPT !.kind = "null"],
                        error |-> ScimClientErr.error]
                  ELSE to_client_response(remote, "option"))
    /\ UNCHANGED <<provider, user>>

ScimGet ==
    /\ \E client \in ScimClients, id \in ScimIds :
          Requested(client, "get", "GET", SomePath(id))
    /\ Classified("get", to_client_response(remote, "option"))
    /\ UNCHANGED <<provider, user>>

ScimCreate ==
    /\ \E client \in ScimClients : Requested(client, "create", "POST", NoPath)
    /\ Classified("create", to_client_response(remote, "resource"))
    /\ UNCHANGED <<provider, user>>

ScimUpdate ==
    /\ \E client \in ScimClients, id \in ScimIds :
          Requested(client, "update", "PUT", SomePath(id))
    /\ Classified("update", to_client_response(remote, "resource"))
    /\ UNCHANGED <<provider, user>>

\* A delete that hands every response to to_client_response.
ScimDeleteMutant ==
    /\ \E id \in ScimIds : Requested("group", "delete", "DELETE", SomePath(id))
    /\ Classified("delete", to_client_response(remote, "unit"))
    /\ UNCHANGED <<provider, user>>

\* AirtableScimGroupClient::delete: the body of a 200 response is not read.
ScimDelete ==
    /\ \E id \in ScimIds : Requested("group", "delete", "DELETE", SomePath(id))
    /\ Classified("delete",
                  IF remote.status = 200
                  THEN [tag |-> "Ok", data |-> NoScimBody,
                        error |-> ScimClientErr.error]
                  ELSE to_client_response(remote, "unit"))
    /\ UNCHANGED <<provider, user>>

NextScim == ScimList \/ ScimGet \/ ScimCreate \/ ScimUpdate \/ ScimDelete

SpecScim == InitScim /\ [][NextScim]_vars

----------------------------------------------------------------------------
(* Canonical names that are not slugs: ensure_user of the org-membership   *)
(* provider for a user whose canonical group "Eng" is the team the         *)
(* organization keeps and lists under the slug "eng".                      *)

InitSlug ==
    /\ provider = "github"
    /\ user \in {[u EXCEPT !.groups = <<"Eng">>] : u \in Users("github")}
    /\ remote \in GhInit
    /\ last = NoOp
    /\ prev = NoSummary

SpecSlug == InitSlug /\ [][EnsureUser]_vars

----------------------------------------------------------------------------
(* Properties *)

Clean == last.fault.at = 0

\* The role the canonical user holds in the team of the given slug; a user
\* without a handle has no account and so no role.
GhRoleIn(slug) ==
    IF user.github = "" \/ ~TeamExists(remote, slug) THEN "none"
    ELSE remote.teams[slug].role

\* The role the canonical user holds in the groupware group of that name.
GsRoleIn(name) ==
    IF ~GGroupExists(remote, Addr(name)) THEN "none"
    ELSE remote.groups[Addr(name)].role

\* The role the canonical user holds in the named group of the provider.
RoleIn(name) ==
    IF provider = "github" THEN GhRoleIn(name) ELSE GsRoleIn(name)

\* The role the admin flag calls for: the elevated role of the provider
\* (Maintainer, OWNER) for a group admin, the standard member role otherwise.
WantedRole ==
    IF provider = "github"
    THEN (IF user.is_group_admin THEN "maintainer" ELSE "member")
    ELSE (IF user.is_group_admin THEN "OWNER" ELSE "MEMBER")

\* The names of the SSO-directory groups the canonical user belongs to.
OkMemberships ==
    {remote.groups[i].name :
        i \in {j \in DOMAIN remote.groups : remote.groups[j].id \in remote.members}}

\* C1: org-membership provider; after a fault-free ensure_user that
\* returns success for a user with a handle, the user is a member of
\* exactly the teams named in the canonical group set.
C1_MembershipConverges ==
    (/\ provider = "github"
     /\ last.op = "ensure_user"
     /\ user.github # ""
     /\ Clean
     /\ last.ok)
    => \A s \in GroupNames : (GhRoleIn(s) # "none") <=> ContainsElem(user.groups, s)

\* C2: on the providers that look the user up first, two consecutive
\* fault-free ensure_user calls that start with the user absent issue
\* exactly one user-create call in total, and the second call leaves the
\* remote state as the first one left it.
C2_EnsureUserIdempotent ==
    (/\ provider \in {"github", "gsuite", "okta"}
     /\ prev.op = "ensure_user"
     /\ prev.absent
     /\ last.op = "ensure_user")
    => /\ prev.creates + Count(last.calls, UserCreateApis) = 1
       /\ ~last.changed

\* C2 witness: a second ensure_user has returned success after a first one
\* that found the groupware user absent and created it.
C2_Witness ==
    /\ provider = "gsuite"
    /\ prev.op = "ensure_user"
    /\ prev.absent
    /\ prev.ok
    /\ last.op = "ensure_user"
    /\ last.ok
    /\ Count(last.calls, {"users.update"}) = 1

\* C3: no-group provider; two consecutive fault-free ensure_user calls
\* issue exactly one invite call in total, and the second call leaves the
\* remote state unchanged.
C3_RampEnsureUserIdempotent ==
    (/\ provider = "ramp"
     /\ prev.op = "ensure_user"
     /\ last.op = "ensure_user")
    => /\ prev.creates + Count(last.calls, UserCreateApis) = 1
       /\ ~last.changed

GroupCreateApis == {"teams.create", "groups.insert", "group.create"}

GroupUpdateApis == {"teams.update_in_org", "groups.update", "group.update"}

\* C4: org-membership and groupware providers; when the group lookup of
\* ensure_group returns NotFound, exactly one create call is issued, it
\* carries the canonical name and description, and no update call is
\* issued for the group record.
C4_NotFoundCreates ==
    (/\ provider \in {"github", "gsuite"}
     /\ last.op = "ensure_group"
     /\ last.calls[1].resp = 404)
    => /\ Count(last.calls, GroupCreateApis) = 1
       /\ Count(last.calls, GroupUpdateApis) = 0
       /\ Len(last.calls) >= 2
       /\ last.calls[2].api \in GroupCreateApis
       /\ last.calls[2].body.name = last.arg.name
       /\ last.calls[2].body.description = last.arg.description

\* C4 witness: a groupware ensure_group found no group, created it and
\* returned success.
C4_Witness ==
    /\ provider = "gsuite"
    /\ last.op = "ensure_group"
    /\ last.calls[1].resp = 404
    /\ last.ok
    /\ remote.groups[Addr(last.arg.name)].description = last.arg.description

\* C5: in every provider's ensure_user and ensure_group, when the
\* precondition lookup (the first call) fails with an error that is not
\* NotFound, the operation returns an error that holds the original error
\* and the identifying context, and no call is issued after the lookup.
C5_FatalPropagation ==
    (/\ last.op \in {"ensure_user", "ensure_group"}
     /\ last.calls # <<>>
     /\ last.calls[1].resp \notin {200, 404})
    => /\ ~last.ok
       /\ last.err.cause = last.fault.err
       /\ last.err.context # <<>>
       /\ Len(last.calls) = 1

\* C6 as stated: on the org-membership and groupware providers, after a
\* successful add_to_group(user, g) the user holds in g the role chosen by
\* the admin flag.
C6_RoleAfterAdd ==
    (/\ provider \in {"github", "gsuite"}
     /\ last.op = "add_user_to_group"
     /\ last.ok)
    => RoleIn(last.arg.name) = WantedRole

\* C6 amended: the same, for a user that has an account on the provider
\* (on the org-membership provider, a non-empty handle).
C6_RoleAfterAddWithHandle ==
    (/\ provider \in {"github", "gsuite"}
     /\ last.op = "add_user_to_group"
     /\ last.ok
     /\ provider = "github" => user.github # "")
    => RoleIn(last.arg.name) = WantedRole

\* C6 witness: an admin was added to a team in which the account held
\* another role or none, and is now its maintainer.
C6_Witness ==
    /\ provider = "github"
    /\ last.op = "add_user_to_group"
    /\ last.ok
    /\ last.changed
    /\ user.is_group_admin
    /\ RoleIn(last.arg.name) = "maintainer"

\* C7: on the org-membership and groupware providers check_membership
\* returns true iff the user is a member of the named group with the role
\* chosen by the admin flag, false when the lookup is NotFound or the role
\* differs, and an error for every other failure of the lookup.
C7_CheckMembership ==
    (/\ provider \in {"github", "gsuite"}
     /\ last.op = "check_user_is_member_of_group")
    => /\ Clean =>
            /\ last.ok
            /\ last.flag <=> (RoleIn(last.arg.name) = WantedRole)
       /\ ~Clean => ~last.ok

\* C8: SSO-directory provider; after a fault-free successful ensure_user
\* the user's remote group memberships equal the canonical group set.
C8_OktaMembershipConverges ==
    (/\ provider = "okta"
     /\ last.op = "ensure_user"
     /\ Clean
     /\ last.ok)
    => OkMemberships = Range(user.groups)

\* C9: SSO-directory provider; check_membership(user, g) returns true iff
\* the user is a member of the remote group named g.
C9_OktaCheckMembership ==
    (/\ provider = "okta"
     /\ last.op = "check_user_is_member_of_group"
     /\ Clean)
    => /\ last.ok
       /\ last.flag <=> (last.arg.name \in OkMemberships)

\* C10: add_to_group for a user who is already a member of the group with
\* a role other than the one chosen by the admin flag updates the role and
\* returns success; the groupware provider issues a member update and no
\* member insert.
C10_AddUpdatesRole ==
    /\ (/\ provider = "gsuite"
        /\ last.op = "add_user_to_group"
        /\ Clean
        /\ last.calls[1].resp = 200
        /\ last.calls[1].val.role # WantedRole)
       => /\ last.ok
          /\ Count(last.calls, {"members.update"}) = 1
          /\ Count(last.calls, {"members.insert"}) = 0
          /\ RoleIn(last.arg.name) = WantedRole
    /\ (/\ provider = "github"
        /\ last.op = "add_user_to_group"
        /\ Clean
        /\ user.github # ""
        /\ last.calls[1].resp = 200)
       => /\ last.ok
          /\ RoleIn(last.arg.name) = WantedRole

----------------------------------------------------------------------------
(* The call log of the org-membership ensure_user *)

IsGet(c) == c.api = "teams.get_membership_for_user_in_org"

IsAdd(c) == c.api = "teams.add_or_update_membership_for_user_in_org"

IsRemove(c) == c.api = "teams.remove_membership_for_user_in_org"

\* What check_membership returned to ensure_user for the read logged at
\* position i of operation l: "true", "false" or "error".
CheckSaid(l, i) ==
    LET c == l.calls[i]
        e == IF l.fault.at = i THEN l.fault.err ELSE NotFoundErr
    IN IF c.resp = 200
       THEN (IF c.val.role = TeamRole(user) THEN "true" ELSE "false")
       ELSE IF IsNotFound(e) THEN "false" ELSE "error"

\* Position of the listing of the remote teams in the log of l, one past
\* the end of the log when the operation never listed them.
ListAt(l) ==
    LET at == {i \in DOMAIN l.calls : l.calls[i].api = "teams.list_all"}
    IN IF at = {} THEN Len(l.calls) + 1 ELSE CHOOSE i \in at : \A j \in at : i <= j

\* The targets of the membership reads of l at the positions in I, in order.
ReadTargets(l, I) ==
    LET reads == SelectSeq([i \in DOMAIN l.calls |-> [at |-> i, c |-> l.calls[i]]],
                           LAMBDA x : x.at \in I /\ IsGet(x.c))
    IN [k \in DOMAIN reads |-> reads[k].c.target]

\* The membership-diff pattern in the log of l: reads of canonical groups
\* before the listing, each followed by an add exactly when the check said
\* false; reads of the other listed teams after the listing, each followed
\* by a remove exactly when the check said true; no other add or remove.
DiffPattern(l) ==
    LET calls == l.calls
        n == Len(calls)
        L == ListAt(l)
        Follows(i, api) ==
            /\ i + 1 <= n
            /\ calls[i + 1].api = api
            /\ calls[i + 1].target = calls[i].target
    IN /\ \A i \in 1..n : IsGet(calls[i]) =>
              /\ i < L =>
                    /\ ContainsElem(user.groups, calls[i].target)
                    /\ CheckSaid(l, i) = "false" <=>
                          Follows(i, "teams.add_or_update_membership_for_user_in_org")
              /\ i > L =>
                    /\ ~ContainsElem(user.groups, calls[i].target)
                    /\ ContainsElem(calls[L].val.list, calls[i].target)
                    /\ CheckSaid(l, i) = "true" <=>
                          Follows(i, "teams.remove_membership_for_user_in_org")
       /\ \A i \in 1..n : IsAdd(calls[i]) =>
              i > 1 /\ i < L /\ IsGet(calls[i - 1])
              /\ calls[i - 1].target = calls[i].target
       /\ \A i \in 1..n : IsRemove(calls[i]) =>
              i > 1 /\ i - 1 > L /\ IsGet(calls[i - 1])
              /\ calls[i - 1].target = calls[i].target
       /\ (l.ok /\ l.fault.at = 0) =>
              /\ ReadTargets(l, 1..(L - 1)) = user.groups
              /\ L <= n
              /\ ReadTargets(l, (L + 1)..n) =
                     SelectSeq(calls[L].val.list,
                               LAMBDA s : ~ContainsElem(user.groups, s))

\* C11: in the org-membership ensure_user, add_to_group is called exactly
\* for the canonical groups whose check_membership returned false,
\* remove_from_group exactly for the remote teams outside the canonical
\* set whose check_membership returned true, every add or remove comes
\* right after the check for the same group, and a canonical group in
\* which the user held the wanted role before the call gets no add or
\* remove call.
C11_DiffCallPattern ==
    [][(provider = "github" /\ last'.op = "ensure_user" /\ user.github # "")
       => /\ DiffPattern(last')
          /\ \A s \in GroupNames :
                (/\ ContainsElem(user.groups, s)
                 /\ TeamExists(remote, s)
                 /\ remote.teams[s].role = TeamRole(user))
                => \A i \in DOMAIN last'.calls :
                      (IsAdd(last'.calls[i]) \/ IsRemove(last'.calls[i]))
                      => last'.calls[i].target # s]_vars

\* C12: org-membership provider; for a user whose handle is empty,
\* ensure_user, check_membership, add_to_group, remove_from_group and
\* delete_user each return success (empty id, false, unit) and issue no
\* outbound call, reads included, whatever the remote state.
C12_EmptyHandleSkips ==
    (/\ provider = "github"
     /\ user.github = ""
     /\ last.op \in {"ensure_user", "check_user_is_member_of_group",
                     "add_user_to_group", "remove_user_from_group",
                     "delete_user"})
    => /\ last.ok
       /\ last.id = ""
       /\ last.flag = FALSE
       /\ last.calls = <<>>
       /\ ~last.changed

\* C12 witness: ensure_user returned for a user without a handle whose
\* canonical team exists in an organization that has members.
C12_Witness ==
    /\ provider = "github"
    /\ user.github = ""
    /\ last.op = "ensure_user"
    /\ last.ok
    /\ remote.org # "none"
    /\ TeamExists(remote, "eng")
    /\ ContainsElem(user.groups, "eng")

\* The org-membership ensure_group found no team of the canonical name:
\* its lookup was answered with NotFound.
GhTeamAbsent ==
    /\ provider = "github"
    /\ last.op = "ensure_group"
    /\ last.calls[1].resp = 404

\* C13 as stated: org-membership ensure_group for a canonical group
\* {name, description, repos} when no team of that name exists issues
\* exactly one create-team call carrying that name and description with
\* zero repositories attached, and no update call.
C13_CreateWithoutRepos ==
    GhTeamAbsent
    => /\ Count(last.calls, {"teams.create"}) = 1
       /\ Count(last.calls, {"teams.update_in_org"}) = 0
       /\ last.calls[2].api = "teams.create"
       /\ last.calls[2].body.name = last.arg.name
       /\ last.calls[2].body.description = last.arg.description
       /\ last.calls[2].body.repo_names = <<>>

\* C13 amended: the same, but the create-team call carries the canonical
\* group's repository names (and no maintainers, no parent team).
C13_CreateWithRepos ==
    GhTeamAbsent
    => /\ Count(last.calls, {"teams.create"}) = 1
       /\ Count(last.calls, {"teams.update_in_org"}) = 0
       /\ last.calls[2].api = "teams.create"
       /\ last.calls[2].body.name = last.arg.name
       /\ last.calls[2].body.description = last.arg.description
       /\ last.calls[2].body.repo_names = last.arg.repos
       /\ last.calls[2].body.maintainers = <<>>
       /\ last.calls[2].body.parent_team_id = 0

\* C13 witness: the team was absent, ensure_group created it with the
\* canonical description and a non-empty list of repositories.
C13_Witness ==
    /\ GhTeamAbsent
    /\ last.ok
    /\ last.arg.repos # <<>>
    /\ Len(last.calls) = 2
    /\ TeamExists(remote, last.arg.name)
    /\ remote.teams[last.arg.name].description = last.arg.description

\* C14: no-group provider; ensure_group, check_membership, add_to_group,
\* remove_from_group, list_provider_groups, delete_group and delete_user
\* return success (false for check_membership, the empty list for
\* list_provider_groups) for every input, issue no outbound call and
\* leave the remote state unchanged.
C14_NoGroupNoOps ==
    (/\ provider = "ramp"
     /\ last.op \in {"ensure_group", "check_user_is_member_of_group",
                     "add_user_to_group", "remove_user_from_group",
                     "list_provider_groups", "delete_group", "delete_user"})
    => /\ last.ok
       /\ last.flag = FALSE
       /\ last.list = <<>>
       /\ last.calls = <<>>
       /\ ~last.changed

\* C14 witness: list_provider_groups returned the empty list for a
\* business that has departments and an invited user.
C14_Witness ==
    /\ provider = "ramp"
    /\ last.op = "list_provider_groups"
    /\ last.ok
    /\ last.list = <<>>
    /\ remote.departments # <<>>
    /\ remote.invites > 0

\* The calls that delete a remote user record or a remote group record.
DeleteApis == {"orgs.remove_member", "teams.delete_in_org", "groups.delete",
               "group.delete"}

\* The remote records (users, groups, teams) of st that are in place.
Records(st) ==
    CASE provider = "github" ->
             {<<"team", s>> : s \in {x \in GroupNames : st.teams[x].exists}}
             \cup (IF st.org # "none" THEN {<<"user", Handle>>} ELSE {})
      [] provider = "gsuite" ->
             {<<"group", a>> : a \in {x \in GroupAddrs : st.groups[x].exists}}
             \cup (IF st.user.exists /\ ~st.user.suspended
                   THEN {<<"user", Email>>} ELSE {})
      [] provider = "okta" ->
             {<<"group", st.groups[i].id>> : i \in DOMAIN st.groups}
             \cup (IF st.user.exists THEN {<<"user", Email>>} ELSE {})
      [] provider = "ramp" ->
             IF st.invites > 0 THEN {<<"user", Email>>} ELSE {}

\* C15: in every provider, ensure_user and ensure_group (and every other
\* operation but delete_user and delete_group) issue no call that deletes
\* a remote user, group or team record and no call that suspends a user
\* who was not suspended; every record in place before the operation is
\* in place, and not suspended, after it.
C15_NoImplicitRemoval ==
    [][last'.op \notin {"delete_user", "delete_group"}
       => /\ Count(last'.calls, DeleteApis) = 0
          /\ \A i \in DOMAIN last'.calls :
                (/\ last'.calls[i].api = "users.update"
                 /\ last'.calls[i].body.suspended)
                => remote.user.suspended
          /\ Records(remote) \subseteq Records(remote')]_vars

\* C15 witness: an org-membership ensure_user took the user out of a team
\* outside the canonical set; the team and the organization membership
\* are still in place.
C15_Witness ==
    /\ provider = "github"
    /\ last.op = "ensure_user"
    /\ last.ok
    /\ Count(last.calls, {"teams.remove_membership_for_user_in_org"}) = 1
    /\ remote.org # "none"
    /\ \E s \in GroupNames :
          /\ ~ContainsElem(user.groups, s)
          /\ TeamExists(remote, s)
          /\ remote.teams[s].role = "none"

\* C16: on each group-supporting provider, a second fault-free
\* ensure_group with the same canonical group, run right after a
\* successful first one, issues no remote mutation call (neither create
\* nor update).
C16_EnsureGroupIdempotent ==
    (/\ provider \in {"github", "gsuite", "okta"}
     /\ prev.op = "ensure_group"
     /\ prev.ok
     /\ last.op = "ensure_group")
    => Count(last.calls, MutationApis) = 0

IsMail(c) == c.api = "send_email_new_gsuite_user"

\* C17: groupware ensure_user; the new-account notification is sent only
\* in a call that took the create branch and only right after the user
\* insert returned success; when the notification fails ensure_user
\* returns that error and issues no further call; a call that takes the
\* update branch sends no notification.
C17_NotificationAfterCreate ==
    (provider = "gsuite" /\ last.op = "ensure_user")
    => /\ \A i \in DOMAIN last.calls : IsMail(last.calls[i]) =>
             /\ i = 3
             /\ last.calls[1].api = "users.get"
             /\ last.calls[1].resp # 200
             /\ last.calls[2].api = "users.insert"
             /\ last.calls[2].resp = 200
             /\ Count(last.calls, {"users.update"}) = 0
             /\ last.calls[i].resp # 200 =>
                   /\ ~last.ok
                   /\ last.err.cause = last.fault.err
                   /\ Len(last.calls) = i
       /\ (last.calls[1].resp = 200 \/ Count(last.calls, {"users.update"}) > 0)
          => Count(last.calls, {"send_email_new_gsuite_user"}) = 0

\* C17 witness: the user was inserted, the notification failed, and
\* ensure_user returned the error with the new user left in place.
C17_Witness ==
    /\ provider = "gsuite"
    /\ last.op = "ensure_user"
    /\ Len(last.calls) = 3
    /\ IsMail(last.calls[3])
    /\ last.calls[3].resp # 200
    /\ ~last.ok
    /\ remote.user.exists

\* The lookups whose NotFound answer is a normal input of the adapters.
LookupApis == {"orgs.get_membership_for_user", "teams.get_by_name",
               "teams.get_membership_for_user_in_org", "users.get",
               "groups.get", "members.get", "user.get"}

\* The call at position i of the last operation returned a fatal error:
\* any failure but a lookup answered with NotFound.
FatalAt(i) ==
    /\ last.calls[i].resp # 200
    /\ ~(last.calls[i].api \in LookupApis /\ last.calls[i].resp = 404)

\* C18: in every ensure_user and ensure_group, once a remote call returns
\* a fatal error the operation returns an error and issues no further
\* call (so no compensating call); a user or organization membership
\* written before the failure is still in place when it returns.
C18_FailFastNoRollback ==
    (last.op \in {"ensure_user", "ensure_group"})
    => \A i \in DOMAIN last.calls : FatalAt(i) =>
          /\ ~last.ok
          /\ i = Len(last.calls)
          /\ \A j \in 1..(i - 1) :
                /\ (last.calls[j].api = "users.insert" /\ last.calls[j].resp = 200)
                   => remote.user.exists
                /\ (last.calls[j].api = "user.create" /\ last.calls[j].resp = 200)
                   => remote.user.exists
                /\ (last.calls[j].api = "orgs.set_membership_for_user"
                    /\ last.calls[j].resp = 200)
                   => remote.org = last.calls[j].body.role

\* C19: for every provider and every single call of an ensure_user that
\* fails, a later fault-free ensure_user for the same canonical user
\* returns success and leaves the remote state and the out-of-band effects
\* (new-account notifications delivered) equal to those of one fault-free
\* ensure_user run from the original state.
C19_ConvergesAfterFailure ==
    (/\ prev.op = "ensure_user"
     /\ prev.retried
     /\ prev.goal.ok)
    => /\ last.ok
       /\ remote = prev.goal.st
       /\ prev.delivered = prev.goal.delivered

OrgApis == {"orgs.get_membership_for_user", "orgs.set_membership_for_user"}

\* The order of the calls in the log of the last operation, an
\* org-membership ensure_user: the organization read first, the
\* organization write second and only when the read did not show the
\* wanted role, then add-phase checks and adds, then at most one listing
\* of the teams, then remove-phase checks and removes.
EnsureUserOrder ==
    LET calls == last.calls
        n == Len(calls)
        L == ListAt(last)
    IN /\ \A i \in 1..n :
             /\ calls[i].api = "orgs.get_membership_for_user" <=> i = 1
             /\ calls[i].api = "orgs.set_membership_for_user" => i = 2
             /\ calls[i].api \notin OrgApis =>
                   \/ IsGet(calls[i]) \/ IsAdd(calls[i]) \/ IsRemove(calls[i])
                   \/ calls[i].api = "teams.list_all"
             /\ IsAdd(calls[i]) => i < L
             /\ IsRemove(calls[i]) => i > L
             /\ IsGet(calls[i]) =>
                   (i < L <=> ContainsElem(user.groups, calls[i].target))
       /\ (n >= 2 /\ calls[2].api = "orgs.set_membership_for_user")
          <=> (n >= 1 /\ \/ calls[1].resp = 404
                         \/ (last.fault.at = 1 /\ IsNotFound(last.fault.err))
                         \/ (calls[1].resp = 200
                             /\ calls[1].val.role # OrgRole(user)))
       /\ Count(calls, {"teams.list_all"}) <= 1

\* C20 as stated: in every successful org-membership ensure_user the
\* calls come in that order and list_provider_groups is called exactly
\* once.
C20_OrderAndOneListing ==
    (provider = "github" /\ last.op = "ensure_user")
    => /\ EnsureUserOrder
       /\ last.ok => Count(last.calls, {"teams.list_all"}) = 1

\* C20 amended: the calls come in that order in every run; the listing is
\* called at most once, and exactly once when ensure_user returns success
\* for a user with a non-empty handle (for an empty handle, never).
C20_OrderAndOneListingWithHandle ==
    (provider = "github" /\ last.op = "ensure_user")
    => /\ EnsureUserOrder
       /\ (last.ok /\ user.github # "")
          => Count(last.calls, {"teams.list_all"}) = 1
       /\ user.github = "" => last.calls = <<>>

\* C20 witness: a successful ensure_user that wrote the organization
\* membership, added the user to a team, listed the teams and removed the
\* user from another team.
C20_Witness ==
    /\ provider = "github"
    /\ last.op = "ensure_user"
    /\ last.ok
    /\ Count(last.calls, {"orgs.set_membership_for_user"}) = 1
    /\ Count(last.calls, {"teams.add_or_update_membership_for_user_in_org"}) >= 1
    /\ Count(last.calls, {"teams.remove_membership_for_user_in_org"}) = 1

C22_ReturnsRemoteId ==
    (last.op = "ensure_user" /\ last.ok)
    => /\ last.id = "" <=> (provider = "github" /\ user.github = "")
       /\ provider \in {"gsuite", "okta"} => last.id = remote.user.id

\* C22 amended: on success the groupware and SSO-directory ensure_user
\* return the non-empty identifier of the remote user record, the
\* no-group ensure_user returns the identifier the invite call answered
\* with, and the org-membership ensure_user returns the empty string for
\* every user, with or without a handle.
C22_ReturnsIdPerProvider ==
    (last.op = "ensure_user" /\ last.ok)
    => /\ provider \in {"gsuite", "okta"}
          => (last.id = remote.user.id /\ last.id # "" /\ remote.user.exists)
       /\ provider = "ramp"
          => (/\ last.calls[Len(last.calls)].api = "users.post_deferred"
              /\ last.id = last.calls[Len(last.calls)].val.id)
       /\ provider = "github" => last.id = ""

\* C22 witness: the groupware ensure_user inserted the user and returned
\* the identifier of the new record.
C22_Witness ==
    /\ provider = "gsuite"
    /\ last.op = "ensure_user"
    /\ last.ok
    /\ Count(last.calls, {"users.insert"}) = 1
    /\ last.id = remote.user.id
    /\ last.id # ""

\* C23: org-membership provider; delete_user for a user with a handle
\* issues exactly one organization-level remove-member call and no
\* per-team call; delete_group issues exactly one team-delete call for
\* the canonical group name and leaves the organization membership as it
\* was.
C23_GithubDeletion ==
    [][(provider = "github")
       => /\ (last'.op = "delete_user" /\ user.github # "")
             => /\ Len(last'.calls) = 1
                /\ last'.calls[1].api = "orgs.remove_member"
                /\ last'.calls[1].target = github_org
                /\ last'.calls[1].who = user.github
          /\ last'.op = "delete_group"
             => /\ Len(last'.calls) = 1
                /\ last'.calls[1].api = "teams.delete_in_org"
                /\ last'.calls[1].target = last'.arg.name
                /\ remote'.org = remote.org]_vars

\* C23 witness: delete_user removed a member of the organization who
\* held a role in a team; the account is out of the organization and of
\* every team, and the teams are still there.
C23_Witness ==
    /\ provider = "github"
    /\ last.op = "delete_user"
    /\ last.ok
    /\ last.changed
    /\ remote.org = "none"
    /\ \E s \in GroupNames : TeamExists(remote, s)
    /\ \A s \in GroupNames : remote.teams[s].role = "none"

\* C24: groupware provider; delete_user issues no user-delete call: it
\* reads the remote user and, when the read succeeds, writes that record
\* back once with suspended = true and a non-empty suspension reason and
\* every other field as read; delete_group issues exactly one hard delete
\* addressed to name@domain.
C24_GsuiteDeletion ==
    (provider = "gsuite")
    => /\ last.op = "delete_user"
          => /\ last.calls[1].api = "users.get"
             /\ last.calls[1].target = user.email
             /\ last.calls[1].resp # 200 => (Len(last.calls) = 1 /\ ~last.ok)
             /\ last.calls[1].resp = 200
                => /\ Len(last.calls) = 2
                   /\ last.calls[2].api = "users.update"
                   /\ last.calls[2].target = user.email
                   /\ last.calls[2].body.suspended
                   /\ last.calls[2].body.suspension_reason # ""
                   /\ last.calls[2].body =
                         [last.calls[1].val EXCEPT
                             !.suspended = TRUE,
                             !.suspension_reason =
                                 last.calls[2].body.suspension_reason]
       /\ last.op = "delete_group"
          => /\ Len(last.calls) = 1
             /\ last.calls[1].api = "groups.delete"
             /\ last.calls[1].target = Addr(last.arg.name)

\* C24 witness: delete_user suspended an existing user, whose record is
\* still in place with its name and aliases.
C24_Witness ==
    /\ provider = "gsuite"
    /\ last.op = "delete_user"
    /\ last.ok
    /\ last.changed
    /\ remote.user.exists
    /\ remote.user.suspended
    /\ remote.user.name = last.calls[1].val.name
    /\ remote.user.name # ""

\* Positions of the listed groups whose profile name is exactly `name`.
ExactHits(listing, name) ==
    {i \in DOMAIN listing : listing[i].name = name}

FirstHit(listing, name) ==
    CHOOSE i \in ExactHits(listing, name) :
        \A j \in ExactHits(listing, name) : i <= j

\* C25: SSO-directory delete_group lists the groups matching the canonical
\* name; a failed listing is returned as an error; with no listed group of
\* exactly that name it succeeds after that one call; otherwise it issues
\* one delete addressed to the id of the first such group and nothing
\* more, and returns the delete's failure if it fails.
C25_OktaDeleteGroup ==
    (provider = "okta" /\ last.op = "delete_group")
    => LET l == last.calls[1]
       IN /\ l.api = "group.list_all"
          /\ l.target = last.arg.name
          /\ Count(last.calls, {"group.delete"}) <= 1
          /\ l.resp # 200
             => /\ Len(last.calls) = 1
                /\ ~last.ok
                /\ last.err.cause.status = l.resp
          /\ (l.resp = 200 /\ ExactHits(l.val.list, last.arg.name) = {})
             => (Len(last.calls) = 1 /\ last.ok /\ ~last.changed)
          /\ (l.resp = 200 /\ ExactHits(l.val.list, last.arg.name) # {})
             => /\ Len(last.calls) = 2
                /\ last.calls[2].api = "group.delete"
                /\ last.calls[2].target =
                      l.val.list[FirstHit(l.val.list, last.arg.name)].id
                /\ last.ok <=> last.calls[2].resp = 200
                /\ ~last.ok => last.err.cause.status = last.calls[2].resp
                /\ last.ok
                   => \A i \in DOMAIN remote.groups :
                         remote.groups[i].id # last.calls[2].target

\* C25 witness: the listing held a group whose name only starts with the
\* canonical name ahead of the group with that name; the second was
\* deleted and the first is still there.
C25_Witness ==
    /\ provider = "okta"
    /\ last.op = "delete_group"
    /\ last.ok
    /\ Len(last.calls[1].val.list) = 2
    /\ last.calls[1].val.list[1].name = "engineering"
    /\ last.calls[2].target = last.calls[1].val.list[2].id
    /\ \E i \in DOMAIN remote.groups :
          remote.groups[i] = last.calls[1].val.list[1]
    /\ \A i \in DOMAIN remote.groups : remote.groups[i].name # last.arg.name

\* C26: SSO-directory ensure_group lists the groups matching the canonical
\* name and acts on the first whose profile name is exactly that name: one
\* update addressed to its id, carrying the canonical description, when
\* its description differs, and no further call when it is equal; with no
\* listed group of exactly that name it issues one create carrying the
\* canonical name and description; a group whose name only starts with
\* the canonical name is never the target of an update and keeps its
\* description.
C26_OktaEnsureGroup ==
    (provider = "okta")
    => /\ \A i \in DOMAIN remote.groups :
             remote.groups[i].name = "engineering"
             => remote.groups[i].description = "old"
       /\ (last.op = "ensure_group")
          => LET l == last.calls[1]
                 g == last.arg
             IN /\ l.api = "group.list_all"
                /\ l.target = g.name
                /\ l.resp # 200 => (Len(last.calls) = 1 /\ ~last.ok)
                /\ (l.resp = 200 /\ ExactHits(l.val.list, g.name) = {})
                   => /\ Len(last.calls) = 2
                      /\ last.calls[2].api = "group.create"
                      /\ last.calls[2].body.name = g.name
                      /\ last.calls[2].body.description = g.description
                      /\ last.ok <=> last.calls[2].resp = 200
                /\ (l.resp = 200 /\ ExactHits(l.val.list, g.name) # {})
                   => LET hit == l.val.list[FirstHit(l.val.list, g.name)]
                      IN IF hit.description = g.description
                         THEN Len(last.calls) = 1 /\ last.ok /\ ~last.changed
                         ELSE /\ Len(last.calls) = 2
                              /\ last.calls[2].api = "group.update"
                              /\ last.calls[2].target = hit.id
                              /\ last.calls[2].body =
                                    [hit EXCEPT
                                        !.description = g.description]
                              /\ last.ok <=> last.calls[2].resp = 200

\* C26 witness: the listing held a group whose name only starts with the
\* canonical name ahead of the group with that name and a stale
\* description; the second was updated and the first is as it was.
C26_Witness ==
    /\ provider = "okta"
    /\ last.op = "ensure_group"
    /\ last.ok
    /\ Len(last.calls) = 2
    /\ Len(last.calls[1].val.list) = 2
    /\ last.calls[1].val.list[1].name = "engineering"
    /\ last.calls[2].api = "group.update"
    /\ remote.groups[1] = last.calls[1].val.list[1]
    /\ remote.groups[2].name = last.arg.name
    /\ remote.groups[2].description = last.arg.description

GsUserAliasApis == {"users.aliases.list", "users.aliases.insert"}

GsMembershipApis == {"members.get", "members.insert", "members.update",
                     "members.delete", "groups.list"}

GsGroupSecondaryApis == {"groups.aliases.list", "groups.aliases.insert",
                         "groups_settings.update"}

\* The call at position i of the last operation comes after a call of one
\* of `apis` that returned success.
AfterSuccessOf(apis, i) ==
    \E j \in 1..(i - 1) :
        last.calls[j].api \in apis /\ last.calls[j].resp = 200

\* C27: groupware provider; in ensure_user every alias call and every
\* membership call comes after a users.update or users.insert that
\* returned success, and every alias call comes before every membership
\* call; in ensure_group every group-alias call and the settings update
\* come after a groups.update or groups.insert that returned success.
C27_SecondaryAfterPrimary ==
    (provider = "gsuite")
    => /\ (last.op = "ensure_user")
          => /\ Count(last.calls, {"users.update", "users.insert"}) <= 1
             /\ \A i \in DOMAIN last.calls :
                   last.calls[i].api \in GsUserAliasApis \cup GsMembershipApis
                   => AfterSuccessOf({"users.update", "users.insert"}, i)
             /\ \A i, j \in DOMAIN last.calls :
                   (/\ last.calls[i].api \in GsUserAliasApis
                    /\ last.calls[j].api \in GsMembershipApis) => i < j
       /\ (last.op = "ensure_group")
          => /\ Count(last.calls, {"groups.update", "groups.insert"}) <= 1
             /\ \A i \in DOMAIN last.calls :
                   last.calls[i].api \in GsGroupSecondaryApis
                   => AfterSuccessOf({"groups.update", "groups.insert"}, i)

\* C27 witness: ensure_user updated the user, inserted an alias and
\* then added a membership.
C27_Witness ==
    /\ provider = "gsuite"
    /\ last.op = "ensure_user"
    /\ last.ok
    /\ last.calls[2].api = "users.update"
    /\ Count(last.calls, {"users.aliases.insert"}) >= 1
    /\ Count(last.calls, {"members.insert"}) >= 1

\* C28: org-membership provider; ensure_user for a user with a handle
\* looks the org membership up first; it issues the set-org-membership
\* call, once and carrying the role chosen by is_group_admin, only if the
\* user had no org membership or held another role, and an ensure_user
\* that returned success for such a user has issued it.
C28_SetIffAbsentOrRoleDiffers ==
    [][(/\ provider = "github"
        /\ last'.op = "ensure_user"
        /\ user.github # "")
       => LET issued == Count(last'.calls, {"orgs.set_membership_for_user"})
              needed == remote.org = "none" \/ remote.org # OrgRole(user)
          IN /\ last'.calls[1].api = "orgs.get_membership_for_user"
             /\ last'.calls[1].who = user.github
             /\ issued <= 1
             /\ issued = 1 => needed
             /\ (last'.ok /\ needed) => issued = 1
             /\ issued = 1
                => /\ last'.calls[2].api = "orgs.set_membership_for_user"
                   /\ last'.calls[2].who = user.github
                   /\ last'.calls[2].body.role = OrgRole(user)]_vars

\* The remote groups that carry the canonical name.
Namesakes == {i \in DOMAIN remote.groups :
                 remote.groups[i].name = last.arg.name}

\* The runs whose create call was accepted.
Creators == {p \in Runs : /\ Len(prev[p].calls) = 2
                          /\ prev[p].calls[2].api = "group.create"
                          /\ prev[p].calls[2].resp = 200}

\* C29: concurrent ensure_group runs on one SSO-directory tenant are not
\* serialized: a run whose listing held no group of the canonical name
\* issues its create whatever the other runs have done since, the create
\* is accepted, and the tenant holds at least one group of that name per
\* accepted create.
C29_NoCoordination ==
    /\ \A p \in Runs :
          (/\ prev[p].pc \in {"done", "failed"}
           /\ Len(prev[p].calls) >= 1
           /\ prev[p].calls[1].resp = 200
           /\ ExactHits(prev[p].results, last.arg.name) = {})
          => /\ Len(prev[p].calls) = 2
             /\ prev[p].calls[2].api = "group.create"
             /\ prev[p].calls[2].body.name = last.arg.name
             /\ prev[p].pc = "done" <=> p \in Creators
    /\ Cardinality(Namesakes) >= Cardinality(Creators)

\* C29 witness: both runs listed a tenant without the group before either
\* created it, both created it, and the tenant holds one group of the
\* canonical name per run, each with an id of its own.
C29_Witness ==
    /\ \A p \in Runs :
          /\ prev[p].pc = "done"
          /\ prev[p].results = <<>>
          /\ p \in Creators
    /\ Cardinality(Namesakes) = MaxRuns
    /\ \A i, j \in Namesakes :
          i # j => remote.groups[i].id # remote.groups[j].id

\* The body is one the method's return type is read from.
ScimReadable ==
    \/ last.response.body.kind = "resource"
    \/ last.op = "get" /\ last.response.body.kind = "null"

\* C30: SCIM client, list, get, create and update; a response with
\* status 200 and a body of the method's return type yields Ok with that
\* body; a response with status 401 and an enterprise error body yields
\* Err(Api) with no schemas, status 401 and the message of the body as
\* detail; a response with another status and a SCIM error body yields
\* Err(Api) with the schemas, status and detail of the body; a body that
\* cannot be read as the expected type yields Err(Client); no response
\* with a status other than 200 yields Ok.
C30_ResponseClassification ==
    (last.op \in {"list", "get", "create", "update"})
    => LET status == last.response.status
           body == last.response.body
           result == last.result
       IN /\ result.tag = "Ok" => status = 200
          /\ status = 200
             => IF ScimReadable
                THEN result.tag = "Ok" /\ result.data = body
                ELSE result.tag = "Client"
          /\ status = 401
             => IF body.kind = "enterprise"
                THEN /\ result.tag = "Api"
                     /\ result.error.schemas = <<>>
                     /\ result.error.status = 401
                     /\ result.error.detail = body.message
                ELSE result.tag = "Client"
          /\ status \notin {200, 401}
             => IF body.kind = "scim"
                THEN /\ result.tag = "Api"
                     /\ result.error.schemas = body.schemas
                     /\ result.error.status = body.status
                     /\ result.error.detail = body.detail
                ELSE result.tag = "Client"

\* C30 witness: list was answered 401 with an enterprise error and
\* returned Err(Api) carrying the message of that body.
C30_Witness ==
    /\ last.op = "list"
    /\ last.response.status = 401
    /\ last.response.body.kind = "enterprise"
    /\ last.result.tag = "Api"
    /\ last.result.error.detail = "Authentication required"

\* C31: SCIM group delete; a response with status 200 yields Ok(())
\* whatever its body, text that is not JSON included; a response with any
\* other status yields an error.
C31_DeleteClassification ==
    (last.op = "delete")
    => /\ last.response.status = 200
          => (last.result.tag = "Ok" /\ last.result.data = NoScimBody)
       /\ last.response.status # 200
          => last.result.tag \in {"Api", "Client"}

\* C31 witness: delete was answered 200 with a body that is not JSON and
\* returned Ok(()).
C31_Witness ==
    /\ last.op = "delete"
    /\ last.response.status = 200
    /\ last.response.body.kind = "text"
    /\ last.result.tag = "Ok"

\* The teams the calls of the last operation to one of `apis` went to.
TeamsOf(apis) ==
    {Slug(last.calls[i].target) :
        i \in {j \in DOMAIN last.calls : last.calls[j].api \in apis}}

\* C32: org-membership ensure_user issues no remove call for a team that
\* stands for one of the user's canonical groups, and no call of it both
\* adds the user to a team and removes the user from that team.
C32_NoRemovalFromCanonicalTeam ==
    (provider = "github" /\ last.op = "ensure_user")
    => /\ TeamsOf({"teams.remove_membership_for_user_in_org"})
             \cap {Slug(user.groups[i]) : i \in DOMAIN user.groups} = {}
       /\ TeamsOf({"teams.remove_membership_for_user_in_org"})
             \cap TeamsOf({"teams.add_or_update_membership_for_user_in_org"})
             = {}

\* The lookups that decide between an update and a create.
UpsertLookupApis == {"orgs.get_membership_for_user", "teams.get_by_name",
                     "users.get", "groups.get", "user.get"}

\* C33: in ensure_user and ensure_group a create-vs-update lookup that
\* failed with anything but the provider's not-found answer (status 404) is
\* not treated as NotFound: it is the last call of the operation, which
\* returns an error, whatever the text of the failure.
C33_NotFoundOnlyWhenAbsent ==
    (last.op \in {"ensure_user", "ensure_group"})
    => \A i \in DOMAIN last.calls :
          (/\ last.calls[i].api \in UpsertLookupApis
           /\ last.calls[i].resp \notin {200, 404})
          => (~last.ok /\ i = Len(last.calls))

GsGroupScopedApis == {"groups.get", "groups.update", "groups.insert",
                      "groups.delete", "members.get", "members.insert",
                      "members.update", "members.delete"}

GsMemberScopedApis == {"members.get", "members.insert", "members.update",
                       "members.delete"}

\* The canonical group names the last operation is about.
NamesInPlay ==
    IF last.arg.name = "" THEN GroupNames ELSE {last.arg.name}

\* C34: groupware provider; every group-scoped call addresses the group as
\* name@domain for a canonical group name of the operation, every
\* member-scoped call names the member by the user's canonical email, a
\* group is inserted under the address name@domain, and the aliases
\* written for a group are alias@domain for its canonical aliases.
C34_GsuiteAddressing ==
    (provider = "gsuite")
    => \A i \in DOMAIN last.calls :
          LET c == last.calls[i]
              wanted == {last.arg.aliases[k] \o "@" \o gsuite_domain :
                            k \in DOMAIN last.arg.aliases}
          IN /\ c.api \in GsGroupScopedApis
                => \E n \in NamesInPlay :
                      c.target = n \o "@" \o gsuite_domain
             /\ c.api \in GsMemberScopedApis => c.who = user.email
             /\ c.api \in {"members.insert", "members.update"}
                => c.body.email = user.email
             /\ c.api = "groups.insert" => c.body.email = c.target
             /\ c.api \in {"groups.insert", "groups.update"}
                => c.body.aliases = wanted
             /\ c.api = "groups.aliases.insert" => c.body.alias \in wanted

\* C34 witness: ensure_group updated the group at its address and then
\* wrote the alias it lacked.
C34_Witness ==
    /\ provider = "gsuite"
    /\ last.op = "ensure_group"
    /\ last.ok
    /\ last.calls[2].api = "groups.update"
    /\ last.calls[2].target = "eng@corp.com"
    /\ Count(last.calls, {"groups.aliases.insert"}) >= 1
    /\ "design@corp.com" \in remote.groups["eng@corp.com"].aliases

\* C35: SSO-directory ensure_user with no failing call issues exactly one
\* user mutation after its lookup: one update, addressed to the id read,
\* when the lookup found the user, and one create when the lookup was
\* answered NotFound; never both.
C35_OneUserMutation ==
    (provider = "okta" /\ last.op = "ensure_user" /\ last.fault.at = 0)
    => /\ last.calls[1].api = "user.get"
       /\ Len(last.calls) = 2
       /\ Count(last.calls, {"user.update", "user.create"}) = 1
       /\ last.calls[1].resp = 200
          => /\ last.calls[2].api = "user.update"
             /\ last.calls[2].target = last.calls[1].val.id
       /\ last.calls[1].resp # 200
          => /\ last.calls[1].resp = 404
             /\ last.calls[2].api = "user.create"

\* C35 witness: the lookup found the user, whose profile differed, and
\* ensure_user updated it and returned its id.
C35_Witness ==
    /\ provider = "okta"
    /\ last.op = "ensure_user"
    /\ last.fault.at = 0
    /\ last.ok
    /\ last.changed
    /\ last.calls[2].api = "user.update"
    /\ last.id = remote.user.id

\* C36: org-membership ensure_group; an update call carries the parent id
\* the team had (0 for none) next to the canonical name, the canonical
\* description and privacy closed and nothing else, a team that existed
\* keeps its parent, and a create call carries parent id 0.
C36_ParentKept ==
    [][(provider = "github" /\ last'.op = "ensure_group")
       => LET slug == Slug(last'.arg.name)
          IN /\ \A i \in DOMAIN last'.calls :
                   LET c == last'.calls[i]
                   IN /\ c.api = "teams.update_in_org"
                         => c.body = [name |-> last'.arg.name,
                                      description |-> last'.arg.description,
                                      parent_team_id |->
                                          remote.teams[slug].parent,
                                      privacy |-> "closed"]
                      /\ c.api = "teams.create"
                         => c.body.parent_team_id = 0
             /\ (remote.teams[slug].exists /\ remote'.teams[slug].exists)
                => remote'.teams[slug].parent = remote.teams[slug].parent
             /\ (~remote.teams[slug].exists /\ remote'.teams[slug].exists)
                => remote'.teams[slug].parent = 0]_vars

\* C36 witness: ensure_group updated the description of a team nested
\* under a parent, and the team is still nested under it.
C36_Witness ==
    /\ provider = "github"
    /\ last.op = "ensure_group"
    /\ last.ok
    /\ last.changed
    /\ last.calls[2].api = "teams.update_in_org"
    /\ last.calls[2].body.parent_team_id = 7
    /\ remote.teams[last.arg.name].parent = 7
    /\ remote.teams[last.arg.name].description = last.arg.description

\* C37: on the org-membership and groupware providers delete_user and
\* delete_group classify no failure: a call of theirs that fails, with
\* NotFound for an absent resource as with anything else, is their last
\* call and its error is the one returned; the groupware delete_user
\* issues no update after a failed read.
C37_AbsentNotTolerated ==
    (/\ provider \in {"github", "gsuite"}
     /\ last.op \in {"delete_user", "delete_group"})
    => /\ \A i \in DOMAIN last.calls :
             last.calls[i].resp # 200
             => /\ ~last.ok
                /\ i = Len(last.calls)
                /\ last.err.context = <<>>
                /\ last.err.cause.status = last.calls[i].resp
       /\ (/\ provider = "gsuite"
           /\ last.op = "delete_user"
           /\ last.calls[1].resp # 200)
          => Count(last.calls, {"users.update"}) = 0

\* C37 witness: delete_group for a group the domain does not have, with no
\* injected failure, returned the provider's NotFound as an error.
C37_Witness ==
    /\ provider = "gsuite"
    /\ last.op = "delete_group"
    /\ last.fault.at = 0
    /\ ~last.ok
    /\ last.calls[1].resp = 404
    /\ ~remote.groups[Addr(last.arg.name)].exists


\* C38: SCIM request URL; get, update and delete by id request the
\* endpoint of the resource followed by "/" and the id, every segment of
\* the endpoint's path kept; list and create, which take no id, request
\* the endpoint itself.
C38_RequestUrl ==
    (last.op # "init")
    => LET endpoint == UrlParse(EndpointOf(prev.client, last.op))
       IN /\ prev.url.origin = endpoint.origin
          /\ last.op \in {"get", "update", "delete"}
             => prev.url.path = Append(endpoint.path, prev.id)
          /\ last.op \in {"list", "create"}
             => prev.url.path = endpoint.path

\* The part of C38 that holds: without an id the URL is the endpoint.
C38_NoIdIsEndpoint ==
    (last.op \in {"list", "create"})
    => prev.url = UrlParse(EndpointOf(prev.client, last.op))

\* By id, the URL is the id directly under the root of the origin.
C38_ByIdIsUnderRoot ==
    (last.op \in {"get", "update", "delete"})
    => prev.url = [origin |-> "https://airtable.com", path |-> <<prev.id>>]


\* C39: SCIM get by id; a not-found response, status 404 with a SCIM
\* error body, yields Err(Api) with the status and detail of that body,
\* and no response with a status other than 200 yields Ok; Ok(None) is
\* returned exactly for a 200 response whose body is JSON null, and
\* Ok(Some(record)) exactly for a 200 response carrying the record.
C39_GetNotFound ==
    (last.op = "get")
    => LET status == last.response.status
           body == last.response.body
           result == last.result
       IN /\ (status = 404 /\ body.kind = "scim")
             => /\ result.tag = "Api"
                /\ result.error.status = body.status
                /\ result.error.detail = body.detail
          /\ status # 200 => result.tag \in {"Api", "Client"}
          /\ (result.tag = "Ok" /\ result.data.kind = "null")
             <=> (status = 200 /\ body.kind = "null")
          /\ (result.tag = "Ok" /\ result.data.kind = "resource")
             <=> (status = 200 /\ body.kind = "resource")
          /\ result.tag = "Ok" => result.data = body

\* C39 witness: get of the group client by id was answered 404 with the
\* SCIM error "Resource not found" and returned Err(Api) with status 404.
C39_Witness ==
    /\ last.op = "get"
    /\ prev.client = "group"
    /\ prev.id = "grp1"
    /\ last.response.status = 404
    /\ last.response.body.kind = "scim"
    /\ last.response.body.detail = "Resource not found"
    /\ last.result.tag = "Api"
    /\ last.result.error.status = 404

====
